---------------------------- MODULE Spec2Model ----------------------------
(***************************************************************************)
(* State-machine model of the ArtifactAnalyzer dashboard (src/index.js,    *)
(* second class definition, lines 1745-3661): data loading, the image      *)
(* quality scorer, the image quality cache and the sequential analysis     *)
(* pass, sorting, and progressive pagination.                              *)
(*                                                                         *)
(* JavaScript is single threaded.  Every action below is one run-to-       *)
(* completion segment of a handler: from an event (or the resumption of an *)
(* await) to the next await.  A state whose pc is "call" or "settled" is a  *)
(* point inside one task or between two microtasks of the analysis pass:   *)
(* no DOM event and no timer can run there, so only the pass is enabled.   *)
(***************************************************************************)
EXTENDS Integers, Sequences, FiniteSets, TLC

(***************************************************************************)
(* JavaScript values.  Scores are integers; NaN is the one non-integer     *)
(* number the scorer can produce (0/0 for an image of natural size 0x0).   *)
(***************************************************************************)
NaN == 0 - 1
NullLabel == "null"
NullRatio == <<>>
NullPixels == 0 - 1
NoImage == "none"
NoYear == 0 - 99999999
\* A text field that is absent from the record (undefined), and one that holds a
\* value that is not a string (a number).
Undefined == "<undefined>"
NotAString == "<number>"

\* x > 0 in JavaScript: false for NaN.
JsPositive(x) == x # NaN /\ x > 0

\* x || 999 in JavaScript: 0 and NaN are falsy.
JsOr999(x) == IF x = NaN \/ x = 0 THEN 999 ELSE x

\* a + b in JavaScript numbers.
JsAdd(a, b) == IF a = NaN \/ b = NaN THEN NaN ELSE a + b

\* Math.max(0, Math.min(hi, x)): NaN propagates.
JsClamp(x, hi) == IF x = NaN THEN NaN ELSE IF x < 0 THEN 0 ELSE IF x > hi THEN hi ELSE x

\* Math.round(num/den) for den > 0: rounds half up, floor(x + 1/2).
Round(num, den) == (2 * num + den) \div (2 * den)

RECURSIVE Gcd(_, _)
Gcd(a, b) == IF b = 0 THEN a ELSE Gcd(b, a % b)

\* img.naturalWidth / img.naturalHeight as an exact fraction <<n, d>>;
\* <<0, 0>> is NaN (0/0) and <<1, 0>> is Infinity (w/0).
Ratio(w, h) ==
    IF w = 0 /\ h = 0 THEN <<0, 0>>
    ELSE LET g == Gcd(w, h) IN <<w \div g, h \div g>>

(***************************************************************************)
(* Image Quality Scorer: calculateEnhancedQualityScores.                   *)
(***************************************************************************)
\* A band below the ideal range: A - ((c - ar) / q) * m with c = C/100, q = Q/100.
LowerBand(w, h, A, C, Q, m) == Round(A * Q * h - (C * h - 100 * w) * m, Q * h)

\* A band above the ideal range: A - ((ar - c) / q) * m.
UpperBand(w, h, A, C, Q, m) == Round(A * Q * h - (100 * w - C * h) * m, Q * h)

\* Math.round(Math.max(0, 5 - Math.abs(Math.log(ar / 1.5)) * 2)) for the ratios
\* the last branch receives (ar < 0.15 or ar > 8, or h = 0):
\*   ar < 0.15        : |ln(ar/1.5)| > ln 10, the value is below 0.4 -> 0
\*   8 < ar <= 8.6319 : the value is in [1.5, 1.66) -> 2   (1.5 * e^1.75 = 8.63190)
\*   ar <= 14.2316    : the value is in [0.5, 1.5)  -> 1   (1.5 * e^2.25 = 14.23160)
\*   beyond, Infinity : -> 0
ExtremeRatioScore(w, h) ==
    IF h = 0 THEN 0
    ELSE IF 100 * w < 15 * h THEN 0
    ELSE IF 10000 * w <= 86319 * h THEN 2
    ELSE IF 10000 * w <= 142316 * h THEN 1
    ELSE 0

AspectRatioScore(w, h) ==
    IF w = 0 /\ h = 0 THEN NaN
    ELSE IF h = 0 THEN ExtremeRatioScore(w, h)
    ELSE JsClamp(
      IF 100 * w >= 133 * h /\ 100 * w <= 178 * h THEN 50
      ELSE IF 100 * w >= 125 * h /\ 100 * w < 133 * h THEN LowerBand(w, h, 48, 133, 8, 3)
      ELSE IF 100 * w > 178 * h /\ 100 * w <= 200 * h THEN UpperBand(w, h, 48, 178, 22, 3)
      ELSE IF 100 * w >= 100 * h /\ 100 * w < 125 * h THEN LowerBand(w, h, 45, 125, 25, 10)
      ELSE IF 100 * w > 200 * h /\ 100 * w <= 240 * h THEN UpperBand(w, h, 45, 200, 40, 10)
      ELSE IF 100 * w >= 80 * h /\ 100 * w < 100 * h THEN LowerBand(w, h, 35, 100, 20, 10)
      ELSE IF 100 * w > 240 * h /\ 100 * w <= 300 * h THEN UpperBand(w, h, 35, 240, 60, 10)
      ELSE IF 100 * w >= 60 * h /\ 100 * w < 80 * h THEN LowerBand(w, h, 25, 80, 20, 8)
      ELSE IF 100 * w > 300 * h /\ 100 * w <= 400 * h THEN UpperBand(w, h, 25, 300, 100, 8)
      ELSE IF 100 * w >= 40 * h /\ 100 * w < 60 * h THEN LowerBand(w, h, 17, 60, 20, 5)
      ELSE IF 100 * w > 400 * h /\ 100 * w <= 500 * h THEN UpperBand(w, h, 17, 400, 100, 5)
      ELSE IF 100 * w >= 25 * h /\ 100 * w < 40 * h THEN LowerBand(w, h, 12, 40, 15, 4)
      ELSE IF 100 * w > 500 * h /\ 100 * w <= 600 * h THEN UpperBand(w, h, 12, 500, 100, 4)
      ELSE IF 100 * w >= 15 * h /\ 100 * w < 25 * h THEN LowerBand(w, h, 8, 25, 10, 3)
      ELSE IF 100 * w > 600 * h /\ 100 * w <= 800 * h THEN UpperBand(w, h, 8, 600, 200, 3)
      ELSE ExtremeRatioScore(w, h), 50)

\* The pixel-count staircase: <<threshold, base, upper edge, divisor, slope>>,
\* read as: pixelCount >= threshold -> base - ((upper - pixelCount) / divisor) * slope.
PixelBands ==
    << <<8294400, 49, 16777216, 8482816, 1>>, <<6220800, 48, 8294400, 2073600, 1>>,
       <<4953600, 47, 6220800, 1267200, 1>>,  <<3686400, 46, 4953600, 1267200, 1>>,
       <<2764800, 45, 3686400, 921600, 1>>,   <<2073600, 44, 2764800, 691200, 1>>,
       <<1638400, 42, 2073600, 435200, 2>>,   <<1382400, 40, 1638400, 256000, 2>>,
       <<1228800, 38, 1382400, 153600, 2>>,   <<1024000, 36, 1228800, 204800, 2>>,
       <<921600, 34, 1024000, 102400, 2>>,    <<768000, 32, 921600, 153600, 2>>,
       <<614400, 30, 768000, 153600, 2>>,     <<518400, 28, 614400, 96000, 2>>,
       <<480000, 26, 518400, 38400, 2>>,      <<409600, 24, 480000, 70400, 2>>,
       <<345600, 22, 409600, 64000, 2>>,      <<307200, 20, 345600, 38400, 2>>,
       <<256000, 18, 307200, 51200, 2>>,      <<230400, 16, 256000, 25600, 2>>,
       <<192000, 14, 230400, 38400, 2>>,      <<153600, 12, 192000, 38400, 2>>,
       <<120000, 10, 153600, 33600, 2>>,      <<76800, 8, 120000, 43200, 2>>,
       <<50000, 6, 76800, 26800, 2>>,         <<32400, 4, 50000, 17600, 2>>,
       <<16000, 2, 32400, 16400, 2>> >>

PixelSizeScore(p) ==
    JsClamp(
      IF p >= 16777216 THEN 50
      ELSE IF p >= 16000 THEN
        LET k == CHOOSE j \in 1..Len(PixelBands) :
                   /\ p >= PixelBands[j][1]
                   /\ \A l \in 1..(j - 1) : p < PixelBands[l][1]
            b == PixelBands[k]
        IN Round(b[2] * b[4] - (b[3] - p) * b[5], b[4])
      \* Math.max(0, 1 - ((16000 - p) / 16000)) = p / 16000
      ELSE Round(p, 16000), 50)

getQualityLabel(score) ==
    IF score = NaN THEN "Very Poor"
    ELSE IF score >= 85 THEN "Excellent"
    ELSE IF score >= 70 THEN "Good"
    ELSE IF score >= 50 THEN "Average"
    ELSE IF score >= 30 THEN "Poor"
    ELSE "Very Poor"

\* The score tuple of an image of natural size w x h, as it is stored on the
\* artifact and in the cache.
calculateEnhancedQualityScores(w, h) ==
    LET Scores(ar, px, overall) ==
          [imageQualityScore |-> overall,
           imageQuality      |-> getQualityLabel(overall),
           aspectRatioScore  |-> ar,
           pixelSizeScore    |-> px,
           aspectRatio       |-> Ratio(w, h),
           pixelSize         |-> w * h]
    IN CHOOSE r \in {Scores(ar, px, JsClamp(JsAdd(ar, px), 100)) :
                       ar \in {AspectRatioScore(w, h)}, px \in {PixelSizeScore(w * h)}} : TRUE


(***************************************************************************)
(* JavaScript strings.  A string is a TLA+ string; its k-th character is   *)
(* SubSeq(s, k, k).  The data of the model uses letters and the space.     *)
(***************************************************************************)
LowerCaseLetters == "abcdefghijklmnopqrstuvwxyz"
UpperCaseLetters == "ABCDEFGHIJKLMNOPQRSTUVWXYZ"

CharAt(s, k) == SubSeq(s, k, k)

\* value && typeof value === 'string'
IsText(v) == v \notin {Undefined, NotAString} /\ v # ""

\* String.prototype.trim
Trim(s) ==
    LET inked == {k \in 1..Len(s) : CharAt(s, k) # " "}
    IN IF inked = {} THEN ""
       ELSE SubSeq(s, CHOOSE k \in inked : \A l \in inked : k <= l,
                      CHOOSE k \in inked : \A l \in inked : l <= k)

\* Position of a character in a string of distinct characters, 0 if absent.
IndexIn(letters, c) ==
    IF \E k \in 1..Len(letters) : CharAt(letters, k) = c
    THEN CHOOSE k \in 1..Len(letters) : CharAt(letters, k) = c
    ELSE 0

\* String.prototype.toLowerCase
RECURSIVE ToLowerCase(_)
ToLowerCase(s) ==
    IF s = "" THEN ""
    ELSE LET c == CharAt(s, 1)
             k == IndexIn(UpperCaseLetters, c)
         IN (IF k = 0 THEN c ELSE CharAt(LowerCaseLetters, k))
            \o ToLowerCase(SubSeq(s, 2, Len(s)))

\* String.prototype.localeCompare in the root collation, as a sign: strings are
\* compared letter by letter without regard to case (the space sorts before
\* the letters, a prefix before its extensions); strings that differ in case
\* only are ordered by the first such difference, lower case first.
CollationRank(c) ==
    IF c = " " THEN 0
    ELSE IF IndexIn(LowerCaseLetters, c) # 0 THEN IndexIn(LowerCaseLetters, c)
    ELSE IndexIn(UpperCaseLetters, c)

IsUpperCase(c) == IndexIn(UpperCaseLetters, c) # 0

localeCompare(a, b) ==
    LET n == IF Len(a) <= Len(b) THEN Len(a) ELSE Len(b)
        primary == {k \in 1..n : CollationRank(CharAt(a, k)) # CollationRank(CharAt(b, k))}
        cased == {k \in 1..n : CharAt(a, k) # CharAt(b, k)}
        First(S) == CHOOSE k \in S : \A l \in S : k <= l
    IN IF primary # {}
       THEN IF CollationRank(CharAt(a, First(primary))) < CollationRank(CharAt(b, First(primary)))
            THEN 0 - 1 ELSE 1
       ELSE IF Len(a) # Len(b) THEN (IF Len(a) < Len(b) THEN 0 - 1 ELSE 1)
       ELSE IF cased = {} THEN 0
       ELSE IF IsUpperCase(CharAt(b, First(cased))) THEN 0 - 1 ELSE 1

\* getStringLength
getStringLength(str) == IF IsText(str) THEN Len(Trim(str)) ELSE 0

\* normalizeAuthor
normalizeAuthor(author) ==
    IF IsText(author) /\ Trim(author) # "" THEN Trim(author) ELSE "Unknown Author"

\* Mutant: an author called Public Domain decides the license, whatever the
\* record's own license says.
normalizeLicense_AuthorWins(license, author) ==
    IF IsText(author) /\ ToLowerCase(Trim(author)) = "public domain"
    THEN "Public Domain"
    ELSE IF IsText(license) /\ Trim(license) # "" THEN Trim(license) ELSE "No License"

\* normalizeLicense
normalizeLicense(license, author) ==
    IF /\ ~(IsText(license) /\ Trim(license) # "")
       /\ IsText(author)
       /\ ToLowerCase(Trim(author)) = "public domain"
    THEN "Public Domain"
    ELSE IF IsText(license) /\ Trim(license) # "" THEN Trim(license) ELSE "No License"


(***************************************************************************)
(* The environment: the data source and the images behind the URLs.        *)
(***************************************************************************)
\* Bounds of the model.
LargeSize == 37
MaxUserEvents == 2
MaxExternalCalls == 1

\* Program constant: this.artifactsPerPage.
artifactsPerPage == 12

\* Natural size <<width, height>> of the image behind a URL (fixed for the
\* session: the content of a URL does not change).
ImageDims(url) ==
    CASE url = "u1" -> <<1920, 1080>>
      [] url = "u2" -> <<100, 100>>
      [] url = "u3" -> <<160, 100>>
      [] url = "u4" -> <<10, 200>>
      [] url = "u5" -> <<0, 0>>
      [] url = "u6" -> <<3840, 2160>>
      [] url = "u7" -> <<640, 480>>
      [] url = "u8.PNG" -> <<800, 600>>
      [] OTHER -> <<1, 1>>

Urls == {"u1", "u2", "u3", "u4", "u5", "u6", "u7", "u8.PNG"}

\* How a dimension probe of a URL may end.  u2 is an unreliable host: a probe
\* of it may load, fail or run into the timeout, and differently each time.
\* u7 is a host that accepts the request and does not answer within the 8 s
\* of a probe.
ProbeOutcomes(url) ==
    IF url = "u2" THEN {"load", "error", "timeout"}
    ELSE IF url = "u7" THEN {"timeout"}
    ELSE {"load"}

\* A record of artifactlist.json; id "" stands for a record without id.
FullRec(id, title, year, image, license, author, description) ==
    [id |-> id, title |-> title, year |-> year, image |-> image,
     license |-> license, author |-> author, description |-> description,
     authorLink |-> Undefined]

\* A record with neither license, author nor description.
Rec(id, title, year, image) ==
    FullRec(id, title, year, image, Undefined, Undefined, Undefined)

\* A record with an author link.
LinkRec(id, title, image, authorLink) ==
    [Rec(id, title, NoYear, image) EXCEPT !.authorLink = authorLink]

SmallCollection ==
    << Rec("a1", "Vase", 1500, "u2"),
       Rec("",   "Coin", 0 - 776, "u2"),
       Rec("a3", "Mask", NoYear, NoImage),
       Rec("a4", "Vase", 1500, "u1"),
       Rec("a5", "Idol", 2020, "u1") >>

\* Images with degenerate sizes: 160x100 (pixel score 0), 10x200 (both scores
\* 0) and an image without natural dimensions (0x0); one image never arrives.
OddCollection ==
    << Rec("b1", "Seal", 100, "u3"),
       Rec("b2", "Bowl", 100, "u4"),
       Rec("b3", "Ring", 300, "u5"),
       Rec("b4", "Ring", 200, "u5"),
       Rec("b5", "Lamp", NoYear, "u7") >>

\* A collection of n records in ascending year order; few of them have an image.
GenCollection(n) ==
    [k \in 1..n |->
       Rec("", IF k % 2 = 0 THEN "Urn" ELSE "Jar", 1000 + k,
           IF k = 1 THEN "u6"
           ELSE IF k \in {2, 20} THEN "u1"
           ELSE IF k = 30 THEN "u4"
           ELSE IF k = n THEN "u2"
           ELSE NoImage)]

\* Records that differ in license, author and description, with ties in every
\* sort key, years on and outside the boundaries of the year chart, and text
\* fields that are absent, blank, padded or not strings.  The third image has
\* no natural size; it stands between a record without image and a second
\* record with the first image.
MixedCollection ==
    << FullRec("m1", "Urn", 500, "u1", "CC0", "Ann", "A tall urn"),
       FullRec("m2", "Axe", 500, NoImage, " CC0 ", " Ann ", "An axe"),
       FullRec("m3", "Bead", NoYear, "u5", Undefined, "Public Domain", Undefined),
       FullRec("m4", "Cup", 0, "u1", "  ", " public domain ", "  "),
       FullRec("m5", "Die", 2025, NoImage, "MIT", "PUBLIC DOMAIN", "A die"),
       FullRec("m6", "Ewer", 0 - 5000000, NoImage, Undefined, "Bob", " Ewer "),
       FullRec("m7", "Fan", 0 - 5000001, NoImage, NotAString, Undefined, NotAString) >>

\* Records for the link test: an image URL with an image extension and a valid
\* author link without one; an image URL without extension and an author link
\* that is no absolute URL; no image and an author link to an image file.
LinksCollection ==
    << LinkRec("l1", "Pot", "u8.PNG", "https://x.org/ann"),
       LinkRec("l2", "Jug", "u2", "ann"),
       LinkRec("l3", "Pin", NoImage, "https://x.org/a.jpg") >>

FailingSources == {"unreachable", "bad-status", "bad-shape", "empty"}
SmallSources == {"small", "odd"}
Sources == SmallSources \cup {"mixed", "large", "links"} \cup FailingSources

\* data.artifacts of a source whose fetch and parse succeed.
Collection(src) ==
    CASE src = "small" -> SmallCollection
      [] src = "odd" -> OddCollection
      [] src = "mixed" -> MixedCollection
      [] src = "large" -> GenCollection(LargeSize)
      [] src = "links" -> LinksCollection
      [] OTHER -> <<>>


\* What fetch('artifactlist.json') and response.json() give for a source:
\* whether the request is answered at all, response.ok, and whether the
\* payload is an object with an array 'artifacts'.
Fetch(src) ==
    [answered |-> src # "unreachable",
     ok |-> src # "bad-status",
     hasArtifacts |-> src # "bad-shape",
     artifacts |-> Collection(src)]

\* Mutant: an empty artifacts array is accepted.
loadArtifactsThrows_AcceptsEmpty(src) ==
    \/ ~Fetch(src).answered
    \/ ~Fetch(src).ok
    \/ ~Fetch(src).hasArtifacts

\* loadArtifacts throws: the fetch rejects, the status is not ok, the payload
\* has no artifacts array, or the array is empty.
loadArtifactsThrows(src) ==
    \/ ~Fetch(src).answered
    \/ ~Fetch(src).ok
    \/ ~Fetch(src).hasArtifacts
    \/ Len(Fetch(src).artifacts) = 0


(***************************************************************************)
(* The state of one ArtifactAnalyzer instance.                             *)
(***************************************************************************)
VARIABLES
    source,                  \* the data source the page fetches (environment)
    phase,                   \* "loading" (init awaits the fetch), "ready", "error",
                             \* "destroyed" (destroy has run)
    artifacts,               \* this.artifacts: sequence of artifact objects (references)
    objs,                    \* the artifact objects: reference -> quality fields
    sortedArtifacts,         \* this.sortedArtifacts
    currentSort,             \* this.currentSort
    displayedArtifacts,      \* this.displayedArtifacts
    isLoading,               \* this.isLoading
    rendered,                \* the cards in #allArtifactsList, in document order
    loadMoreShown,           \* #loadMoreBtn is displayed ("block") or hidden ("none")
    priorityArtifacts,       \* this.priorityArtifacts: set of ids
    imageQualityCache,       \* this.imageQualityCache: URL -> score tuple
    imageAnalysisInProgress, \* this.imageAnalysisInProgress
    imageAnalysisProgress,   \* this.imageAnalysisProgress: [current, total]
    imageQualityMode,        \* this.imageQualityMode
    averageImageQuality,     \* this.averageImageQuality as the fraction [sum, count]
    avgDisplay,              \* content of #avgImageQuality
    highestList,             \* content of #highestImageQualityList
    lowestList,              \* content of #lowestImageQualityList
    pc,                      \* position of the analysis pass
    passIndex,               \* the loop variable i of analyzeAllImageQualities
    artifactsToAnalyze,      \* the local artifactsToAnalyze of the running pass
    inflight,                \* pending loadImageData promises: [ref, url]
    lateImages,              \* Image objects of promises rejected by the timeout,
                             \* still loading: [ref, url]
    probesIssued,            \* history: number of loadImageData calls per URL
    visited,                 \* history: artifacts handed to analyzeImageQuality, in order
    priorityAtStart,         \* history: the Priority Set when the pass sorted its work
    passesStarted,           \* history: number of analyzeAllImageQualities invocations
    userEvents,              \* history: number of DOM events handled
    externalCalls,           \* history: number of direct startImageQualityAnalysis calls
    authorStats,             \* this.authorStats: the author frequency table
    licenseStats,            \* this.licenseStats: the license frequency table
    timeframeCounts,         \* the data of chartInstances.yearChart (<<>>: no chart)
    sortsInARow,             \* history: the latest steps that were calls of
                             \* applySorting with the key that is current now
    testButtonDisabled,      \* #testLinksBtn.disabled
    testResults,             \* what #testResults shows: "empty", "all-working",
                             \* "broken-list" or "interrupted"
    brokenLinks,             \* the local brokenLinks of handleLinkTest
    totalTests,              \* the local totalTests of handleLinkTest
    completed,               \* the local completed of handleLinkTest
    linkPc,                  \* position of handleLinkTest: "idle", "image", "author",
                             \* "delay" or "done"
    linkIndex,               \* position of the for-of loop of handleLinkTest (1-based)
    sinceDelay,              \* history: analyses finished since the pass last slept
    sincePublish             \* history: analyses finished since the lists were republished

pageVars == <<sortedArtifacts, currentSort, displayedArtifacts, isLoading, rendered,
              loadMoreShown>>
passVars == <<pc, passIndex, artifactsToAnalyze, inflight, imageAnalysisInProgress,
              imageAnalysisProgress>>
publishVars == <<averageImageQuality, avgDisplay, highestList, lowestList>>
histVars == <<probesIssued, visited, priorityAtStart, passesStarted, userEvents,
              externalCalls>>
cadenceVars == <<sinceDelay, sincePublish>>
statsVars == <<authorStats, licenseStats, timeframeCounts>>
linkVars == <<testButtonDisabled, testResults, brokenLinks, totalTests, completed, linkPc,
              linkIndex>>
vars == <<source, phase, artifacts, objs, pageVars, priorityArtifacts, imageQualityCache,
          imageQualityMode, passVars, publishVars, histVars, cadenceVars, statsVars,
          sortsInARow, linkVars, lateImages>>

\* The record of the data source behind an artifact object.
Raw(ref) == Collection(source)[ref]

\* artifact.id after analyzeArtifacts: artifact.id || `artifact_${index}`.
ArtifactId(ref) ==
    IF Raw(ref).id = "" THEN "artifact_" \o ToString(ref - 1) ELSE Raw(ref).id

\* The quality fields analyzeArtifacts gives every artifact.
Unscored ==
    [imageQualityScore |-> 0, imageQuality |-> NullLabel, aspectRatioScore |-> 0,
     pixelSizeScore |-> 0, aspectRatio |-> NullRatio, pixelSize |-> NullPixels]

Sign(x) == IF x > 0 THEN 1 ELSE IF x < 0 THEN 0 - 1 ELSE 0

(***************************************************************************)
(* Array.prototype.sort(comparator): a stable sort.  cmp[<<a, b>>] is the   *)
(* comparator's result (its sign; NaN counts as 0).  For a comparator that *)
(* is a consistent order this is the one result ECMAScript allows.         *)
(***************************************************************************)
\* e inserted behind the last element of the sorted s that does not sort after it.
InsertBy(s, e, cmp) ==
    LET ok == {k \in 1..Len(s) : cmp[<<s[k], e>>] <= 0}
        pos == IF ok = {} THEN 0 ELSE CHOOSE k \in ok : \A l \in ok : l <= k
    IN SubSeq(s, 1, pos) \o <<e>> \o SubSeq(s, pos + 1, Len(s))

\* The first k elements of s, sorted.  The sorted prefix t is bound as a value,
\* so it is computed once per element.
RECURSIVE SortPrefix(_, _, _)
SortPrefix(s, cmp, k) ==
    IF k = 0 THEN <<>>
    ELSE CHOOSE r \in {InsertBy(t, s[k], cmp) : t \in {SortPrefix(s, cmp, k - 1)}} : TRUE

SortBy(s, cmp) == CHOOSE r \in {SortPrefix(v, cmp, Len(v)) : v \in {s}} : TRUE

Range(s) == {s[k] : k \in 1..Len(s)}

Slice(s, from, to) == SubSeq(s, from + 1, IF to > Len(s) THEN Len(s) ELSE to)

Min(a, b) == IF a <= b THEN a ELSE b

(***************************************************************************)
(* Quality metrics and the top/bottom lists.                               *)
(***************************************************************************)
getScoreByMode(heap, ref, mode) ==
    CASE mode = "aspect-ratio" -> heap[ref].aspectRatioScore
      [] mode = "pixel-size" -> heap[ref].pixelSizeScore
      [] OTHER -> heap[ref].imageQualityScore

\* b - a of two scores; NaN when either is NaN, which sort treats as 0.
ScoreDiff(b, a) == IF a = NaN \/ b = NaN THEN 0 ELSE Sign(b - a)

getTopArtifactsByMode(arts, heap, mode, count) ==
    LET valid == SelectSeq(arts, LAMBDA r : JsPositive(getScoreByMode(heap, r, mode)))
        cmp == [p \in Range(arts) \X Range(arts) |->
                  ScoreDiff(getScoreByMode(heap, p[2], mode), getScoreByMode(heap, p[1], mode))]
    IN Slice(SortBy(valid, cmp), 0, count)

getBottomArtifactsByMode(arts, heap, mode, count) ==
    LET valid == SelectSeq(arts, LAMBDA r : JsPositive(getScoreByMode(heap, r, mode)))
        cmp == [p \in Range(arts) \X Range(arts) |->
                  ScoreDiff(getScoreByMode(heap, p[1], mode), getScoreByMode(heap, p[2], mode))]
    IN Slice(SortBy(valid, cmp), 0, count)

Modes == {"overall", "aspect-ratio", "pixel-size"}

\* updatePriorityArtifacts: the new value of this.priorityArtifacts.
updatePriorityArtifacts(arts, heap, sorted, displayed) ==
    LET visibleCount == Min(displayed + artifactsPerPage * 2, Len(sorted))
    IN {ArtifactId(sorted[k]) : k \in 1..visibleCount}
       \cup UNION {{ArtifactId(r) : r \in Range(getTopArtifactsByMode(arts, heap, m, 5))
                                         \cup Range(getBottomArtifactsByMode(arts, heap, m, 5))}
                   : m \in Modes}


(***************************************************************************)
(* Statistics of analyzeArtifacts and the year chart.                      *)
(***************************************************************************)
\* The entries of a Map that counts the labels of a sequence: one entry per
\* distinct label, in the order of first insertion.
CountByLabel(labels) ==
    LET first == SelectSeq([k \in 1..Len(labels) |-> k],
                           LAMBDA k : \A j \in 1..(k - 1) : labels[j] # labels[k])
    IN [e \in 1..Len(first) |->
          [label |-> labels[first[e]],
           count |-> Cardinality({k \in 1..Len(labels) : labels[k] = labels[first[e]]})]]

\* Mutant: a sort by descending count that leaves equal counts in the reverse of
\* their insertion order.
ByCountDescending_TiesReversed(entries) ==
    SortBy([e \in 1..Len(entries) |-> entries[Len(entries) + 1 - e]],
           [p \in Range(entries) \X Range(entries) |-> Sign(p[2].count - p[1].count)])

\* .sort((a, b) => b.count - a.count)
ByCountDescending(entries) ==
    SortBy(entries, [p \in Range(entries) \X Range(entries) |-> Sign(p[2].count - p[1].count)])

\* calculateAuthorStats
calculateAuthorStats(recs) ==
    LET table == ByCountDescending(
                   CountByLabel([k \in 1..Len(recs) |-> normalizeAuthor(recs[k].author)]))
    IN [e \in 1..Len(table) |-> [author |-> table[e].label, count |-> table[e].count]]

\* calculateLicenseStats
calculateLicenseStats(recs) ==
    LET table == ByCountDescending(
                   CountByLabel([k \in 1..Len(recs) |->
                                   normalizeLicense(recs[k].license, recs[k].author)]))
    IN [e \in 1..Len(table) |-> [license |-> table[e].label, count |-> table[e].count]]

\* this.timeframeBoundaries
timeframeBoundaries ==
    <<0 - 5000000, 0 - 500000, 0 - 100000, 0 - 10000, 0 - 1000, 0, 500, 750, 1000, 1250,
      1500, 1750, 1900, 2025>>

\* The bucket the loop of drawYearChart counts a year in: the first i with
\* boundary[i] <= year < boundary[i + 1]; 0 when it counts it nowhere.
TimeframeOf_UpperInclusive(year) ==
    LET hits == {i \in 1..(Len(timeframeBoundaries) - 1) :
                   year > timeframeBoundaries[i] /\ year <= timeframeBoundaries[i + 1]}
    IN IF year = NoYear \/ hits = {} THEN 0
       ELSE CHOOSE i \in hits : \A j \in hits : i <= j

TimeframeOf(year) ==
    LET hits == {i \in 1..(Len(timeframeBoundaries) - 1) :
                   year >= timeframeBoundaries[i] /\ year < timeframeBoundaries[i + 1]}
    IN IF year = NoYear \/ hits = {} THEN 0
       ELSE CHOOSE i \in hits : \A j \in hits : i <= j

\* drawYearChart: timeframeCounts
drawYearChart(recs) ==
    [i \in 1..(Len(timeframeBoundaries) - 1) |->
       Cardinality({k \in 1..Len(recs) : TimeframeOf(recs[k].year) = i})]


(***************************************************************************)
(* Sort/Filter engine.                                                     *)
(***************************************************************************)
\* yearB - yearA with a missing year read as -Infinity (sign; NaN -> 0).
YearNewestCmp(ya, yb) ==
    IF ya = NoYear /\ yb = NoYear THEN 0
    ELSE IF ya = NoYear THEN 1
    ELSE IF yb = NoYear THEN 0 - 1
    ELSE Sign(yb - ya)

\* Mutant: yearA - yearB with a missing year read as -Infinity.
YearOldestCmp_MissingFirst(ya, yb) ==
    IF ya = NoYear /\ yb = NoYear THEN 0
    ELSE IF ya = NoYear THEN 0 - 1
    ELSE IF yb = NoYear THEN 1
    ELSE Sign(ya - yb)

\* yearA - yearB with a missing year read as +Infinity (sign; NaN -> 0).
YearOldestCmp(ya, yb) ==
    IF ya = NoYear /\ yb = NoYear THEN 0
    ELSE IF ya = NoYear THEN 1
    ELSE IF yb = NoYear THEN 0 - 1
    ELSE Sign(ya - yb)

\* The values of the #artifactSort select.
SortKeys ==
    {"year-newest", "year-oldest", "title-longest", "title-shortest",
     "description-longest", "description-shortest", "image-high-quality",
     "image-low-quality", "license-common", "license-rare", "author-common", "author-rare"}

\* The keys the user of the model picks: every key on the mixed collection, whose
\* records differ in all of them, and the year and image quality keys on the
\* other collections, whose records have no license, author or description.
SortChoices ==
    IF source = "mixed" THEN SortKeys
    ELSE {"year-newest", "year-oldest", "image-high-quality", "image-low-quality"}

\* artifact.titleLength and artifact.descriptionLength, set by analyzeArtifacts.
titleLength(ref) == getStringLength(Raw(ref).title)
descriptionLength(ref) == getStringLength(Raw(ref).description)

\* The comparator shared by sortByLicenseFrequency and sortByAuthorFrequency:
\* labels[e] is the label of entry e of the frequency table, labelOf[r] the
\* label of artifact r.  A label gets its (0-based) table index when rareFirst,
\* and the table length minus that index otherwise (|| 0 for a label that is
\* not in the table).
FrequencyCmp(arts, labels, labelOf, rareFirst) ==
    LET Frequency(label) ==
          LET at == {e \in 1..Len(labels) : labels[e] = label}
          IN IF at = {} THEN 0
             ELSE LET index == (CHOOSE e \in at : TRUE) - 1
                  IN IF rareFirst THEN index ELSE Len(labels) - index
        freq == [r \in Range(arts) |-> Frequency(labelOf[r])]
        Title(r) == IF Raw(r).title = Undefined THEN "" ELSE Raw(r).title
    IN [p \in Range(arts) \X Range(arts) |->
          IF freq[p[1]] # freq[p[2]]
          THEN IF rareFirst THEN Sign(freq[p[1]] - freq[p[2]])
               ELSE Sign(freq[p[2]] - freq[p[1]])
          ELSE localeCompare(Title(p[1]), Title(p[2]))]

sortByLicenseFrequency(arts, rareFirst) ==
    SortBy(arts,
           FrequencyCmp(arts, [e \in 1..Len(licenseStats) |-> licenseStats[e].license],
                        [r \in Range(arts) |->
                           normalizeLicense(Raw(r).license, Raw(r).author)],
                        rareFirst))

sortByAuthorFrequency(arts, rareFirst) ==
    SortBy(arts,
           FrequencyCmp(arts, [e \in 1..Len(authorStats) |-> authorStats[e].author],
                        [r \in Range(arts) |-> normalizeAuthor(Raw(r).author)],
                        rareFirst))

getSortedArtifacts(arts, heap, sortType) ==
    LET R == Range(arts)
        cmp ==
          CASE sortType = "year-oldest" ->
                 [p \in R \X R |-> YearOldestCmp(Raw(p[1]).year, Raw(p[2]).year)]
            [] sortType = "title-longest" ->
                 [p \in R \X R |-> Sign(titleLength(p[2]) - titleLength(p[1]))]
            [] sortType = "title-shortest" ->
                 [p \in R \X R |-> Sign(titleLength(p[1]) - titleLength(p[2]))]
            [] sortType = "description-longest" ->
                 [p \in R \X R |-> Sign(descriptionLength(p[2]) - descriptionLength(p[1]))]
            [] sortType = "description-shortest" ->
                 [p \in R \X R |-> Sign(descriptionLength(p[1]) - descriptionLength(p[2]))]
            [] sortType = "image-high-quality" ->
                 [p \in R \X R |-> ScoreDiff(heap[p[2]].imageQualityScore,
                                             heap[p[1]].imageQualityScore)]
            [] sortType = "image-low-quality" ->
                 [p \in R \X R |-> Sign(JsOr999(heap[p[1]].imageQualityScore)
                                        - JsOr999(heap[p[2]].imageQualityScore))]
            [] OTHER ->
                 [p \in R \X R |-> YearNewestCmp(Raw(p[1]).year, Raw(p[2]).year)]
    IN CASE sortType = "license-common" -> sortByLicenseFrequency(arts, FALSE)
         [] sortType = "license-rare" -> sortByLicenseFrequency(arts, TRUE)
         [] sortType = "author-common" -> sortByAuthorFrequency(arts, FALSE)
         [] sortType = "author-rare" -> sortByAuthorFrequency(arts, TRUE)
         [] OTHER -> SortBy(arts, cmp)

(***************************************************************************)
(* Cards of the paginated view.                                            *)
(***************************************************************************)
createImageQualityBadge(heap, ref, mode) ==
    IF heap[ref].imageQuality = NullLabel \/ heap[ref].imageQualityScore = 0
    THEN [loading |-> TRUE, score |-> 0]
    ELSE [loading |-> FALSE, score |-> getScoreByMode(heap, ref, mode)]

ScoreText(heap, ref) ==
    [analyzing |-> FALSE, overall |-> heap[ref].imageQualityScore,
     ar |-> heap[ref].aspectRatioScore, px |-> heap[ref].pixelSizeScore]

createFullArtifactCard(heap, ref, mode) ==
    [ref |-> ref, title |-> Raw(ref).title,
     badge |-> createImageQualityBadge(heap, ref, mode),
     meta |-> IF JsPositive(heap[ref].imageQualityScore) THEN ScoreText(heap, ref)
              ELSE [analyzing |-> TRUE, overall |-> 0, ar |-> 0, px |-> 0]]

\* this.artifacts.find(a => a.title === title): 0 when there is none.
FindByTitle(arts, title) ==
    LET hits == {k \in 1..Len(arts) : Raw(arts[k]).title = title}
    IN IF hits = {} THEN 0 ELSE arts[CHOOSE k \in hits : \A l \in hits : k <= l]

updateVisibleArtifactCards(cards, arts, heap) ==
    [k \in 1..Len(cards) |->
       LET card == cards[k]
           a == FindByTitle(arts, card.title)
       IN IF a # 0 /\ JsPositive(heap[a].imageQualityScore)
          THEN [card EXCEPT
                  !.meta = IF card.meta.analyzing THEN ScoreText(heap, a) ELSE @,
                  !.badge = IF card.badge.loading
                            THEN [loading |-> FALSE, score |-> heap[a].imageQualityScore]
                            ELSE @]
          ELSE card]

\* updateImageQualityListsProgressive: the new <<highest, lowest>> lists.
updateImageQualityListsProgressive(arts, heap, mode, hi, lo) ==
    IF \A k \in 1..Len(arts) : ~JsPositive(heap[arts[k]].imageQualityScore)
    THEN <<hi, lo>>
    ELSE << [mode |-> mode, items |-> getTopArtifactsByMode(arts, heap, mode, 5)],
            [mode |-> mode, items |-> getBottomArtifactsByMode(arts, heap, mode, 5)] >>

(***************************************************************************)
(* Progressive pagination.  A page state is the record                     *)
(* [sorted, displayed, cards, prio, shown].                                *)
(***************************************************************************)
\* Mutant: endIndex is not capped at the length of the sorted sequence.
loadMoreArtifacts_Overshoot(pg, loading, heap, mode) ==
    IF loading \/ pg.displayed >= Len(pg.sorted) THEN pg
    ELSE LET endIndex == pg.displayed + artifactsPerPage
             artifactsToShow == Slice(pg.sorted, pg.displayed, endIndex)
         IN [sorted |-> pg.sorted,
             displayed |-> endIndex,
             cards |-> pg.cards \o [k \in 1..Len(artifactsToShow) |->
                                      createFullArtifactCard(heap, artifactsToShow[k], mode)],
             prio |-> pg.prio \cup {ArtifactId(r) : r \in Range(artifactsToShow)},
             shown |-> ~(endIndex >= Len(pg.sorted))]

loadMoreArtifacts(pg, loading, heap, mode) ==
    LET More(p) ==
          IF loading \/ p.displayed >= Len(p.sorted) THEN p
          ELSE LET endIndex == Min(p.displayed + artifactsPerPage, Len(p.sorted))
                   artifactsToShow == Slice(p.sorted, p.displayed, endIndex)
               IN [sorted |-> p.sorted,
                   displayed |-> endIndex,
                   cards |-> p.cards \o [k \in 1..Len(artifactsToShow) |->
                                           createFullArtifactCard(heap, artifactsToShow[k],
                                                                  mode)],
                   prio |-> p.prio \cup {ArtifactId(r) : r \in Range(artifactsToShow)},
                   shown |-> ~(endIndex >= Len(p.sorted))]
    IN CHOOSE r \in {More(p) : p \in {pg}} : TRUE

\* Mutant: applySorting neither resets displayedArtifacts nor clears the container.
applySorting_NoReset(arts, heap, mode, sortType, shown) ==
    LET sorted == getSortedArtifacts(arts, heap, sortType)
    IN loadMoreArtifacts([sorted |-> sorted, displayed |-> displayedArtifacts,
                          cards |-> rendered,
                          prio |-> updatePriorityArtifacts(arts, heap, sorted,
                                                           displayedArtifacts),
                          shown |-> shown],
                         FALSE, heap, mode)

\* applySorting past its isLoading guard: the page state after it.
applySorting(arts, heap, mode, sortType, shown) ==
    LET Page(sorted) ==
          loadMoreArtifacts([sorted |-> sorted, displayed |-> 0, cards |-> <<>>,
                             prio |-> updatePriorityArtifacts(arts, heap, sorted, 0),
                             shown |-> shown],
                            FALSE, heap, mode)
    IN CHOOSE r \in {Page(sorted) : sorted \in {getSortedArtifacts(arts, heap, sortType)}} : TRUE

CurrentPage ==
    [sorted |-> sortedArtifacts, displayed |-> displayedArtifacts, cards |-> rendered,
     prio |-> priorityArtifacts, shown |-> loadMoreShown]

\* The page variables take the values of page state pg.
SetPage(pg) ==
    /\ sortedArtifacts' = pg.sorted
    /\ displayedArtifacts' = pg.displayed
    /\ rendered' = pg.cards
    /\ priorityArtifacts' = pg.prio
    /\ loadMoreShown' = pg.shown


(***************************************************************************)
(* Image quality cache and analysis scheduler.                             *)
(***************************************************************************)
\* Mutant: the comparator is reversed (aPriority - bPriority).
PriorityOrder_Reversed(arts, prio) ==
    LET P(r) == IF ArtifactId(r) \in prio THEN 1 ELSE 0
    IN SortBy(arts, [p \in Range(arts) \X Range(arts) |-> P(p[1]) - P(p[2])])

\* [...this.artifacts].sort((a, b) => bPriority - aPriority)
PriorityOrder(arts, prio) ==
    LET P(r) == IF ArtifactId(r) \in prio THEN 1 ELSE 0
    IN SortBy(arts, [p \in Range(arts) \X Range(arts) |-> P(p[2]) - P(p[1])])

NoImageFields(old) ==
    [old EXCEPT !.imageQualityScore = 0, !.imageQuality = "No Image",
                !.aspectRatioScore = 0, !.pixelSizeScore = 0]

FailedFields(old) ==
    [old EXCEPT !.imageQualityScore = 0, !.imageQuality = "Analysis Failed",
                !.aspectRatioScore = 0, !.pixelSizeScore = 0]

FromCache(cached) ==
    [imageQualityScore |-> cached.overallScore, imageQuality |-> cached.quality,
     aspectRatioScore |-> cached.aspectRatioScore, pixelSizeScore |-> cached.pixelSizeScore,
     aspectRatio |-> cached.aspectRatio, pixelSize |-> cached.pixelSize]

CacheEntry(fields) ==
    [overallScore |-> fields.imageQualityScore, quality |-> fields.imageQuality,
     aspectRatioScore |-> fields.aspectRatioScore, pixelSizeScore |-> fields.pixelSizeScore,
     aspectRatio |-> fields.aspectRatio, pixelSize |-> fields.pixelSize]

\* Mutant: storing an entry drops the entries of the other URLs.
CachePut_Replace(cache, url, entry) == [u \in {url} |-> entry]

CachePut(cache, url, entry) ==
    [u \in DOMAIN cache \cup {url} |-> IF u = url THEN entry ELSE cache[u]]

\* Sum and count of the positive imageQualityScore values of this.artifacts.
ValidScores(arts, heap) ==
    LET valid == SelectSeq(arts, LAMBDA r : JsPositive(heap[r].imageQualityScore))
        Sum[k \in 0..Len(valid)] ==
          IF k = 0 THEN 0 ELSE Sum[k - 1] + heap[valid[k]].imageQualityScore
    IN [sum |-> Sum[Len(valid)], count |-> Len(valid)]

\* Math.round of the average, 0 when there is no valid score.
RoundedAverage(avg) == IF avg.count > 0 THEN Round(avg.sum, avg.count) ELSE 0

\* No task of the page is running: a DOM event, a timer or an image event can be
\* dispatched.  In "call", "settled" and "finish" the pass is running.
AtMacrotask == pc \in {"idle", "probing", "delay", "done"}

\* The loop of analyzeAllImageQualities awaits the analysis of this artifact.
Awaited(ref) ==
    pc = "probing" /\ passIndex < Len(artifactsToAnalyze)
    /\ artifactsToAnalyze[passIndex + 1] = ref

\* startImageQualityAnalysis past its guard, and analyzeAllImageQualities up to
\* its loop.
BeginPass(arts, heap, sorted, displayed) ==
    LET prio == updatePriorityArtifacts(arts, heap, sorted, displayed)
    IN /\ imageAnalysisInProgress' = TRUE
       /\ imageAnalysisProgress' = [current |-> 0, total |-> Len(arts)]
       /\ avgDisplay' = [text |-> "Analyzing", value |-> 0, note |-> "progress"]
       /\ priorityArtifacts' = prio
       /\ artifactsToAnalyze' = PriorityOrder(arts, prio)
       /\ passIndex' = 0
       /\ pc' = IF Len(arts) > 0 THEN "call" ELSE "finish"
       /\ priorityAtStart' = prio
       /\ passesStarted' = passesStarted + 1
       /\ visited' = <<>>
       /\ sinceDelay' = 0
       /\ sincePublish' = 0

(***************************************************************************)
(* Actions.                                                                *)
(***************************************************************************)
Init ==
    /\ source \in Sources
    /\ phase = "loading"
    /\ artifacts = <<>>
    /\ objs = <<>>
    /\ sortedArtifacts = <<>>
    /\ currentSort = "year-newest"
    /\ displayedArtifacts = 0
    /\ isLoading = FALSE
    /\ rendered = <<>>
    /\ loadMoreShown = TRUE
    /\ priorityArtifacts = {}
    /\ imageQualityCache = <<>>
    /\ imageAnalysisInProgress = FALSE
    /\ imageAnalysisProgress = [current |-> 0, total |-> 0]
    /\ imageQualityMode = "overall"
    /\ averageImageQuality = [sum |-> 0, count |-> 0]
    /\ avgDisplay = [text |-> "Loading", value |-> 0, note |-> ""]
    /\ highestList = [mode |-> "overall", items |-> <<>>]
    /\ lowestList = [mode |-> "overall", items |-> <<>>]
    /\ pc = "idle"
    /\ passIndex = 0
    /\ artifactsToAnalyze = <<>>
    /\ inflight = {}
    /\ lateImages = {}
    /\ probesIssued = [u \in Urls |-> 0]
    /\ visited = <<>>
    /\ priorityAtStart = {}
    /\ passesStarted = 0
    /\ userEvents = 0
    /\ externalCalls = 0
    /\ sinceDelay = 0
    /\ sincePublish = 0
    /\ authorStats = <<>>
    /\ licenseStats = <<>>
    /\ timeframeCounts = <<>>
    /\ sortsInARow = 0
    /\ testButtonDisabled = FALSE
    /\ testResults = "empty"
    /\ brokenLinks = <<>>
    /\ totalTests = 0
    /\ completed = 0
    /\ linkPc = "idle"
    /\ linkIndex = 0

\* init, resumed when the fetch of loadArtifacts has settled, with a usable
\* collection: analyzeArtifacts, applySorting('year-newest') and the start of
\* the analysis pass.
initLoaded ==
    /\ phase = "loading"
    /\ ~loadArtifactsThrows(source)
    /\ LET n == Len(Collection(source))
           arts == [k \in 1..n |-> k]
           heap == [k \in 1..n |-> Unscored]
           pg == applySorting(arts, heap, imageQualityMode, "year-newest", loadMoreShown)
       IN /\ phase' = "ready"
          /\ artifacts' = arts
          /\ objs' = heap
          /\ currentSort' = "year-newest"
          /\ sortedArtifacts' = pg.sorted
          /\ displayedArtifacts' = pg.displayed
          /\ rendered' = pg.cards
          /\ loadMoreShown' = pg.shown
          /\ authorStats' = calculateAuthorStats(Collection(source))
          /\ licenseStats' = calculateLicenseStats(Collection(source))
          /\ timeframeCounts' = drawYearChart(Collection(source))
          /\ BeginPass(arts, heap, pg.sorted, pg.displayed)
    /\ sortsInARow' = 1
    /\ UNCHANGED <<source, linkVars, lateImages, isLoading, imageQualityCache, imageQualityMode,
                   averageImageQuality, highestList, lowestList, inflight, probesIssued,
                   userEvents, externalCalls>>

\* init when loadArtifacts throws: showError.
initFailed ==
    /\ phase = "loading"
    /\ loadArtifactsThrows(source)
    /\ phase' = "error"
    /\ avgDisplay' = [text |-> "Error", value |-> 0, note |-> ""]
    /\ sortsInARow' = 0
    /\ UNCHANGED <<source, linkVars, lateImages, statsVars, artifacts, objs, pageVars, priorityArtifacts, imageQualityCache,
                   imageQualityMode, passVars, averageImageQuality, highestList,
                   lowestList, histVars, cadenceVars>>

\* What a call of analyzeImageQuality leaves alone before its first await.
CallFrame ==
    /\ sortsInARow' = 0
    /\ UNCHANGED <<source, linkVars, lateImages, statsVars, phase, artifacts, pageVars, priorityArtifacts, imageQualityMode,
                passIndex, artifactsToAnalyze, imageAnalysisInProgress,
                imageAnalysisProgress, publishVars, priorityAtStart, passesStarted,
                userEvents, externalCalls, cadenceVars>>

\* analyzeImageQuality of an artifact without image: returns at once.
AnalyzeNoImage(ref) ==
    /\ objs' = [objs EXCEPT ![ref] = NoImageFields(@)]
    /\ pc' = "settled"
    /\ UNCHANGED <<imageQualityCache, inflight, probesIssued>>

\* analyzeImageQuality of an artifact whose URL is cached: copies, returns at once.
AnalyzeFromCache(ref, url) ==
    /\ objs' = [objs EXCEPT ![ref] = FromCache(imageQualityCache[url])]
    /\ pc' = "settled"
    /\ UNCHANGED <<imageQualityCache, inflight, probesIssued>>

\* analyzeImageQuality calls loadImageData and awaits it; the loop awaits the
\* analysis.
AnalyzeProbe(ref, url) ==
    /\ inflight' = inflight \cup {[ref |-> ref, url |-> url]}
    /\ probesIssued' = [probesIssued EXCEPT ![url] = @ + 1]
    /\ pc' = "probing"
    /\ UNCHANGED <<objs, imageQualityCache>>

\* Mutant: the loop does not await the analysis it started.
CallAnalyze_NoAwait ==
    /\ pc = "call"
    /\ LET ref == artifactsToAnalyze[passIndex + 1]
           url == Raw(ref).image
       IN /\ visited' = Append(visited, ref)
          /\ IF url = NoImage THEN AnalyzeNoImage(ref)
             ELSE IF url \in DOMAIN imageQualityCache THEN AnalyzeFromCache(ref, url)
             ELSE /\ inflight' = inflight \cup {[ref |-> ref, url |-> url]}
                  /\ probesIssued' = [probesIssued EXCEPT ![url] = @ + 1]
                  /\ pc' = "settled"
                  /\ UNCHANGED <<objs, imageQualityCache>>
    /\ CallFrame

\* Mutant: the cache is never consulted.
CallAnalyze_NoCache ==
    /\ pc = "call"
    /\ LET ref == artifactsToAnalyze[passIndex + 1]
           url == Raw(ref).image
       IN /\ visited' = Append(visited, ref)
          /\ IF url = NoImage THEN AnalyzeNoImage(ref) ELSE AnalyzeProbe(ref, url)
    /\ CallFrame

\* Mutant: the check for a missing image is gone.
CallAnalyze_NoImageCheck ==
    /\ pc = "call"
    /\ LET ref == artifactsToAnalyze[passIndex + 1]
           url == Raw(ref).image
       IN /\ visited' = Append(visited, ref)
          /\ IF url \in DOMAIN imageQualityCache THEN AnalyzeFromCache(ref, url)
             ELSE AnalyzeProbe(ref, url)
    /\ CallFrame

\* The loop calls analyzeImageQuality(artifactsToAnalyze[i]): the part of it
\* that runs before its first await.
CallAnalyze ==
    /\ pc = "call"
    /\ LET ref == artifactsToAnalyze[passIndex + 1]
           url == Raw(ref).image
       IN /\ visited' = Append(visited, ref)
          /\ IF url = NoImage THEN AnalyzeNoImage(ref)
             ELSE IF url \in DOMAIN imageQualityCache THEN AnalyzeFromCache(ref, url)
             ELSE AnalyzeProbe(ref, url)
    /\ CallFrame

\* img.onload of a pending probe: the promise resolves and analyzeImageQuality
\* continues in its try block.
ProbeLoads(p) ==
    /\ AtMacrotask
    /\ p \in inflight
    /\ "load" \in ProbeOutcomes(p.url)
    /\ \E scores \in {calculateEnhancedQualityScores(ImageDims(p.url)[1],
                                                       ImageDims(p.url)[2])} :
          /\ objs' = [objs EXCEPT ![p.ref] = scores]
          /\ imageQualityCache' = CachePut(imageQualityCache, p.url, CacheEntry(scores))
    /\ inflight' = inflight \ {p}
    /\ pc' = IF Awaited(p.ref) THEN "settled" ELSE pc
    /\ sortsInARow' = 0
    /\ UNCHANGED <<source, linkVars, lateImages, statsVars, phase, artifacts, pageVars, priorityArtifacts, imageQualityMode,
                   passIndex, artifactsToAnalyze, imageAnalysisInProgress,
                   imageAnalysisProgress, publishVars, histVars, cadenceVars>>

\* Mutant: analyzeImageQuality has no catch: the rejection reaches the catch of
\* startImageQualityAnalysis, which ends the pass.
ProbeFails_Uncaught(p, how) ==
    /\ AtMacrotask
    /\ p \in inflight
    /\ how \in ProbeOutcomes(p.url) \ {"load"}
    /\ inflight' = inflight \ {p}
    /\ lateImages' = IF how = "timeout" THEN lateImages \cup {p} ELSE lateImages
    /\ IF Awaited(p.ref)
       THEN /\ avgDisplay' = [text |-> "Error", value |-> 0, note |-> "Analysis failed"]
            /\ imageAnalysisInProgress' = FALSE
            /\ pc' = "done"
       ELSE UNCHANGED <<avgDisplay, imageAnalysisInProgress, pc>>
    /\ sortsInARow' = 0
    /\ UNCHANGED <<source, linkVars, statsVars, phase, artifacts, objs, pageVars, priorityArtifacts,
                   imageQualityCache, imageQualityMode, passIndex, artifactsToAnalyze,
                   imageAnalysisProgress, averageImageQuality, highestList, lowestList,
                   histVars, cadenceVars>>

\* img.onerror or the 8 s timeout of a pending probe: the promise rejects and
\* analyzeImageQuality continues in its catch block.
ProbeFails_CachesFailure(p, how) ==
    /\ AtMacrotask
    /\ p \in inflight
    /\ how \in ProbeOutcomes(p.url) \ {"load"}
    /\ objs' = [objs EXCEPT ![p.ref] = FailedFields(@)]
    /\ imageQualityCache' = CachePut(imageQualityCache, p.url, CacheEntry(FailedFields(objs[p.ref])))
    /\ inflight' = inflight \ {p}
    /\ lateImages' = IF how = "timeout" THEN lateImages \cup {p} ELSE lateImages
    /\ pc' = IF Awaited(p.ref) THEN "settled" ELSE pc
    /\ sortsInARow' = 0
    /\ UNCHANGED <<source, linkVars, statsVars, phase, artifacts, pageVars, priorityArtifacts,
                   imageQualityMode, passIndex, artifactsToAnalyze,
                   imageAnalysisInProgress, imageAnalysisProgress, publishVars, histVars,
                   cadenceVars>>

ProbeFails(p, how) ==
    /\ AtMacrotask
    /\ p \in inflight
    /\ how \in ProbeOutcomes(p.url) \ {"load"}
    /\ objs' = [objs EXCEPT ![p.ref] = FailedFields(@)]
    /\ inflight' = inflight \ {p}
    /\ lateImages' = IF how = "timeout" THEN lateImages \cup {p} ELSE lateImages
    /\ pc' = IF Awaited(p.ref) THEN "settled" ELSE pc
    /\ sortsInARow' = 0
    /\ UNCHANGED <<source, linkVars, statsVars, phase, artifacts, pageVars, priorityArtifacts, imageQualityCache,
                   imageQualityMode, passIndex, artifactsToAnalyze,
                   imageAnalysisInProgress, imageAnalysisProgress, publishVars, histVars,
                   cadenceVars>>

ProbeError == \E p \in inflight : ProbeFails(p, "error")

\* Mutant: loadImageData sets no timeout.
ProbeTimeout_Never == FALSE /\ UNCHANGED vars

ProbeTimeout == \E p \in inflight : ProbeFails(p, "timeout")

ProbeLoad == \E p \in inflight : ProbeLoads(p)

\* The loop body after `await this.analyzeImageQuality(...)`, up to the delay or
\* the next iteration.
\* Mutant: the loop never sleeps between analyses.
LoopBody_NoDelay ==
    /\ pc = "settled"
    /\ LET i == passIndex
           ref == artifactsToAnalyze[i + 1]
           lists == updateImageQualityListsProgressive(artifacts, objs, imageQualityMode,
                                                       highestList, lowestList)
       IN /\ imageAnalysisProgress' = [imageAnalysisProgress EXCEPT !.current = i + 1]
          /\ avgDisplay' = [text |-> "Score",
                            value |-> RoundedAverage(ValidScores(artifacts, objs)),
                            note |-> "progress"]
          /\ IF i % 5 = 0 \/ ArtifactId(ref) \in priorityArtifacts
             THEN /\ highestList' = lists[1]
                  /\ lowestList' = lists[2]
                  /\ rendered' = updateVisibleArtifactCards(rendered, artifacts, objs)
                  /\ sincePublish' = 0
             ELSE /\ UNCHANGED <<highestList, lowestList, rendered>>
                  /\ sincePublish' = sincePublish + 1
          /\ passIndex' = i + 1
          /\ pc' = IF i + 1 < Len(artifactsToAnalyze) THEN "call" ELSE "finish"
    /\ sinceDelay' = sinceDelay + 1
    /\ sortsInARow' = 0
    /\ UNCHANGED <<source, linkVars, lateImages, statsVars, phase, artifacts, objs, sortedArtifacts, currentSort,
                   displayedArtifacts, isLoading, loadMoreShown, priorityArtifacts,
                   imageQualityCache, imageQualityMode, artifactsToAnalyze, inflight,
                   imageAnalysisInProgress, averageImageQuality, histVars>>

\* Mutant: the lists and cards are republished on every fifth analysis only,
\* whether or not the analyzed id is in the Priority Set.
LoopBody_EveryFifth ==
    /\ pc = "settled"
    /\ LET i == passIndex
           lists == updateImageQualityListsProgressive(artifacts, objs, imageQualityMode,
                                                       highestList, lowestList)
       IN /\ imageAnalysisProgress' = [imageAnalysisProgress EXCEPT !.current = i + 1]
          /\ avgDisplay' = [text |-> "Score",
                            value |-> RoundedAverage(ValidScores(artifacts, objs)),
                            note |-> "progress"]
          /\ IF i % 5 = 0
             THEN /\ highestList' = lists[1]
                  /\ lowestList' = lists[2]
                  /\ rendered' = updateVisibleArtifactCards(rendered, artifacts, objs)
                  /\ sincePublish' = 0
             ELSE /\ UNCHANGED <<highestList, lowestList, rendered>>
                  /\ sincePublish' = sincePublish + 1
          /\ IF i % 10 = 0
             THEN pc' = "delay" /\ passIndex' = i
             ELSE /\ passIndex' = i + 1
                  /\ pc' = IF i + 1 < Len(artifactsToAnalyze) THEN "call" ELSE "finish"
    /\ sinceDelay' = sinceDelay + 1
    /\ sortsInARow' = 0
    /\ UNCHANGED <<source, linkVars, lateImages, statsVars, phase, artifacts, objs, sortedArtifacts, currentSort,
                   displayedArtifacts, isLoading, loadMoreShown, priorityArtifacts,
                   imageQualityCache, imageQualityMode, artifactsToAnalyze, inflight,
                   imageAnalysisInProgress, averageImageQuality, histVars>>

LoopBody ==
    /\ pc = "settled"
    /\ LET i == passIndex
           ref == artifactsToAnalyze[i + 1]
           lists == updateImageQualityListsProgressive(artifacts, objs, imageQualityMode,
                                                       highestList, lowestList)
       IN /\ imageAnalysisProgress' = [imageAnalysisProgress EXCEPT !.current = i + 1]
          /\ avgDisplay' = [text |-> "Score",
                            value |-> RoundedAverage(ValidScores(artifacts, objs)),
                            note |-> "progress"]
          /\ IF i % 5 = 0 \/ ArtifactId(ref) \in priorityArtifacts
             THEN /\ highestList' = lists[1]
                  /\ lowestList' = lists[2]
                  /\ rendered' = updateVisibleArtifactCards(rendered, artifacts, objs)
                  /\ sincePublish' = 0
             ELSE /\ UNCHANGED <<highestList, lowestList, rendered>>
                  /\ sincePublish' = sincePublish + 1
          /\ IF i % 10 = 0
             THEN pc' = "delay" /\ passIndex' = i
             ELSE /\ passIndex' = i + 1
                  /\ pc' = IF i + 1 < Len(artifactsToAnalyze) THEN "call" ELSE "finish"
    /\ sinceDelay' = sinceDelay + 1
    /\ sortsInARow' = 0
    /\ UNCHANGED <<source, linkVars, lateImages, statsVars, phase, artifacts, objs, sortedArtifacts, currentSort,
                   displayedArtifacts, isLoading, loadMoreShown, priorityArtifacts,
                   imageQualityCache, imageQualityMode, artifactsToAnalyze, inflight,
                   imageAnalysisInProgress, averageImageQuality, histVars>>

\* The timer of `await this.delay(50)` fires: the next iteration begins.
DelayFires ==
    /\ pc = "delay"
    /\ sinceDelay' = 0
    /\ passIndex' = passIndex + 1
    /\ pc' = IF passIndex + 1 < Len(artifactsToAnalyze) THEN "call" ELSE "finish"
    /\ sortsInARow' = 0
    /\ UNCHANGED <<source, linkVars, lateImages, statsVars, phase, artifacts, objs, pageVars, priorityArtifacts,
                   imageQualityCache, imageQualityMode, artifactsToAnalyze, inflight,
                   imageAnalysisInProgress, imageAnalysisProgress, publishVars, histVars,
                   sincePublish>>

\* The loop is over: the final list update, then startImageQualityAnalysis
\* resumes after `await this.analyzeAllImageQualities()` up to its finally.
PassFinish ==
    /\ pc = "finish"
    /\ LET lists == updateImageQualityListsProgressive(artifacts, objs, imageQualityMode,
                                                       highestList, lowestList)
           avg == ValidScores(artifacts, objs)
       IN /\ highestList' = lists[1]
          /\ lowestList' = lists[2]
          /\ rendered' = updateVisibleArtifactCards(rendered, artifacts, objs)
          /\ averageImageQuality' = avg
          /\ avgDisplay' = [text |-> "Score", value |-> RoundedAverage(avg),
                            note |-> "Complete"]
    /\ imageAnalysisInProgress' = FALSE
    /\ pc' = "done"
    /\ sincePublish' = 0
    /\ sortsInARow' = 0
    /\ UNCHANGED <<source, linkVars, lateImages, statsVars, phase, artifacts, objs, sortedArtifacts, currentSort,
                   displayedArtifacts, isLoading, loadMoreShown, priorityArtifacts,
                   imageQualityCache, imageQualityMode, passIndex, artifactsToAnalyze,
                   inflight, imageAnalysisProgress, histVars, sinceDelay>>


\* A DOM event of the page can be dispatched to a listener of setupEventListeners.
UserCanAct == phase = "ready" /\ AtMacrotask /\ userEvents < MaxUserEvents

\* Mutant: a new sort reorders the work the running pass has not done yet.
handleSortChange_Reschedule ==
    /\ UserCanAct
    /\ \E sortType \in SortChoices :
         \E pg \in {applySorting(artifacts, objs, imageQualityMode, sortType, loadMoreShown)} :
         \E rest \in {SelectSeq(artifactsToAnalyze, LAMBDA r : r \notin Range(visited))} :
            /\ currentSort' = sortType
            /\ sortsInARow' = IF sortType = currentSort THEN sortsInARow + 1 ELSE 1
            /\ SetPage(pg)
            /\ artifactsToAnalyze' =
                 IF imageAnalysisInProgress
                 THEN SelectSeq(artifactsToAnalyze, LAMBDA r : r \in Range(visited))
                      \o PriorityOrder(rest, pg.prio)
                 ELSE artifactsToAnalyze
    /\ userEvents' = userEvents + 1
    /\ UNCHANGED <<source, linkVars, lateImages, statsVars, phase, artifacts, objs, isLoading, imageQualityCache,
                   imageQualityMode, pc, passIndex, inflight, imageAnalysisInProgress,
                   imageAnalysisProgress, publishVars, probesIssued, visited,
                   priorityAtStart, passesStarted, externalCalls, cadenceVars>>

\* Mutant: picking the key that is already current turns the view around.
handleSortChange_Toggle ==
    /\ UserCanAct
    /\ \E sortType \in SortChoices :
         IF isLoading
         THEN sortsInARow' = 0 /\ UNCHANGED <<pageVars, priorityArtifacts>>
         ELSE /\ currentSort' = sortType
              /\ sortsInARow' = IF sortType = currentSort THEN sortsInARow + 1 ELSE 1
              /\ \E pg \in {applySorting(artifacts, objs, imageQualityMode, sortType,
                                          loadMoreShown)} :
                    IF sortType = currentSort
                    THEN SetPage([pg EXCEPT !.sorted =
                                    [k \in 1..Len(sortedArtifacts) |->
                                       sortedArtifacts[Len(sortedArtifacts) + 1 - k]]])
                    ELSE SetPage(pg)
              /\ UNCHANGED isLoading
    /\ userEvents' = userEvents + 1
    /\ UNCHANGED <<source, linkVars, lateImages, statsVars, phase, artifacts, objs, imageQualityCache, imageQualityMode,
                   passVars, publishVars, probesIssued, visited, priorityAtStart,
                   passesStarted, externalCalls, cadenceVars>>

\* handleSortChange (or the reset button): applySorting(sortType).
handleSortChange ==
    /\ UserCanAct
    /\ \E sortType \in SortChoices :
         IF isLoading
         THEN sortsInARow' = 0 /\ UNCHANGED <<pageVars, priorityArtifacts>>
         ELSE /\ currentSort' = sortType
              /\ sortsInARow' = IF sortType = currentSort THEN sortsInARow + 1 ELSE 1
              /\ \E pg \in {applySorting(artifacts, objs, imageQualityMode, sortType,
                                          loadMoreShown)} : SetPage(pg)
              /\ UNCHANGED isLoading
    /\ userEvents' = userEvents + 1
    /\ UNCHANGED <<source, linkVars, lateImages, statsVars, phase, artifacts, objs, imageQualityCache, imageQualityMode,
                   passVars, publishVars, probesIssued, visited, priorityAtStart,
                   passesStarted, externalCalls, cadenceVars>>

\* handleLoadMore (click) and the throttled scroll handler: loadMoreArtifacts.
handleLoadMore ==
    /\ UserCanAct
    /\ \E pg \in {loadMoreArtifacts(CurrentPage, isLoading, objs, imageQualityMode)} :
          SetPage(pg)
    /\ userEvents' = userEvents + 1
    /\ sortsInARow' = 0
    /\ UNCHANGED <<source, linkVars, lateImages, statsVars, phase, artifacts, objs, currentSort, isLoading,
                   imageQualityCache, imageQualityMode, passVars, publishVars,
                   probesIssued, visited, priorityAtStart, passesStarted, externalCalls, cadenceVars>>

\* Mutant: a mode change throws the scores away to compute them again.
throttledScrollHandler_DoubleAppend ==
    /\ UserCanAct
    /\ IF displayedArtifacts < Len(sortedArtifacts) /\ loadMoreShown /\ ~isLoading
       THEN \E pg \in {loadMoreArtifacts(CurrentPage, isLoading, objs, imageQualityMode)} :
               SetPage([pg EXCEPT !.cards =
                          pg.cards \o SubSeq(pg.cards, displayedArtifacts + 1, Len(pg.cards))])
       ELSE UNCHANGED <<sortedArtifacts, displayedArtifacts, rendered, priorityArtifacts,
                        loadMoreShown>>
    /\ userEvents' = userEvents + 1
    /\ sortsInARow' = 0
    /\ UNCHANGED <<source, linkVars, lateImages, statsVars, phase, artifacts, objs, currentSort, isLoading,
                   imageQualityCache, imageQualityMode, passVars, publishVars,
                   probesIssued, visited, priorityAtStart, passesStarted, externalCalls, cadenceVars>>

\* The scroll listener of setupInfiniteScroll, when the throttle lets a call
\* through and the window is near the end of the page.
throttledScrollHandler ==
    /\ UserCanAct
    /\ IF displayedArtifacts < Len(sortedArtifacts) /\ loadMoreShown /\ ~isLoading
       THEN \E pg \in {loadMoreArtifacts(CurrentPage, isLoading, objs, imageQualityMode)} :
               SetPage(pg)
       ELSE UNCHANGED <<sortedArtifacts, displayedArtifacts, rendered, priorityArtifacts,
                        loadMoreShown>>
    /\ userEvents' = userEvents + 1
    /\ sortsInARow' = 0
    /\ UNCHANGED <<source, linkVars, lateImages, statsVars, phase, artifacts, objs, currentSort, isLoading,
                   imageQualityCache, imageQualityMode, passVars, publishVars,
                   probesIssued, visited, priorityAtStart, passesStarted, externalCalls, cadenceVars>>

handleImageQualityModeChange_Reset ==
    /\ UserCanAct
    /\ \E mode \in Modes : imageQualityMode' = mode
    /\ objs' = [r \in DOMAIN objs |-> Unscored]
    /\ userEvents' = userEvents + 1
    /\ sortsInARow' = 0
    /\ UNCHANGED <<source, linkVars, lateImages, statsVars, phase, artifacts, pageVars, priorityArtifacts,
                   imageQualityCache, passVars, publishVars, probesIssued, visited,
                   priorityAtStart, passesStarted, externalCalls, cadenceVars>>

\* Mutant: a mode change drops the cache, so that later analyses fetch again.
handleImageQualityModeChange_ClearCache ==
    /\ UserCanAct
    /\ \E mode \in Modes :
         LET lists == updateImageQualityListsProgressive(artifacts, objs, mode,
                                                         highestList, lowestList)
         IN /\ imageQualityMode' = mode
            /\ highestList' = lists[1]
            /\ lowestList' = lists[2]
    /\ imageQualityCache' = <<>>
    /\ userEvents' = userEvents + 1
    /\ sortsInARow' = 0
    /\ UNCHANGED <<source, linkVars, lateImages, statsVars, phase, artifacts, objs, pageVars, priorityArtifacts,
                   passVars, averageImageQuality, avgDisplay,
                   probesIssued, visited, priorityAtStart, passesStarted, externalCalls,
                   cadenceVars>>

handleImageQualityModeChange ==
    /\ UserCanAct
    /\ \E mode \in Modes :
         LET lists == updateImageQualityListsProgressive(artifacts, objs, mode,
                                                         highestList, lowestList)
         IN /\ imageQualityMode' = mode
            /\ highestList' = lists[1]
            /\ lowestList' = lists[2]
    /\ userEvents' = userEvents + 1
    /\ sortsInARow' = 0
    /\ UNCHANGED <<source, linkVars, lateImages, statsVars, phase, artifacts, objs, pageVars, priorityArtifacts,
                   imageQualityCache, passVars, averageImageQuality, avgDisplay,
                   probesIssued, visited, priorityAtStart, passesStarted, externalCalls, cadenceVars>>

\* Mutant: startImageQualityAnalysis without its imageAnalysisInProgress guard.
startImageQualityAnalysis_NoGuard ==
    /\ phase = "ready"
    /\ AtMacrotask
    /\ externalCalls < MaxExternalCalls
    /\ externalCalls' = externalCalls + 1
    /\ BeginPass(artifacts, objs, sortedArtifacts, displayedArtifacts)
    /\ sortsInARow' = 0
    /\ UNCHANGED <<source, linkVars, lateImages, statsVars, phase, artifacts, objs, pageVars, imageQualityCache,
                   imageQualityMode, averageImageQuality, highestList, lowestList,
                   inflight, probesIssued, userEvents>>

\* startImageQualityAnalysis invoked on the instance by another caller than init
\* (the instance is published as window.artifactAnalyzer).
startImageQualityAnalysis ==
    /\ phase = "ready"
    /\ AtMacrotask
    /\ externalCalls < MaxExternalCalls
    /\ externalCalls' = externalCalls + 1
    /\ IF imageAnalysisInProgress
       THEN UNCHANGED <<priorityArtifacts, passVars, avgDisplay, visited, priorityAtStart,
                        passesStarted, cadenceVars>>
       ELSE /\ BeginPass(artifacts, objs, sortedArtifacts, displayedArtifacts)
            /\ UNCHANGED inflight
    /\ sortsInARow' = 0
    /\ UNCHANGED <<source, linkVars, lateImages, statsVars, phase, artifacts, objs, pageVars, imageQualityCache,
                   imageQualityMode, averageImageQuality, highestList, lowestList,
                   probesIssued, userEvents>>

\* destroy, called by the beforeunload listener (or on window.artifactAnalyzer)
\* while the page is up.  The charts and the map are not part of the model.
destroy ==
    /\ phase = "ready"
    /\ AtMacrotask
    /\ phase' = "destroyed"
    /\ artifacts' = <<>>
    /\ imageQualityCache' = <<>>
    /\ timeframeCounts' = <<>>
    /\ sortsInARow' = 0
    /\ UNCHANGED <<source, linkVars, lateImages, authorStats, licenseStats, objs, pageVars, priorityArtifacts, imageQualityMode, passVars,
                   publishVars, histVars, cadenceVars>>

\* ---------------------------------------------------------------------------
\* The bulk link test (handleLinkTest, testUrl, testImageUrl)
\* ---------------------------------------------------------------------------

\* String.prototype.includes.
Includes(s, t) == \E i \in 1..(Len(s) - Len(t) + 1) : SubSeq(s, i, i + Len(t) - 1) = t

imageExtensions == {".jpg", ".jpeg", ".png", ".gif", ".webp", ".svg", ".bmp"}

isImageUrl(url) == \E ext \in imageExtensions : Includes(ToLowerCase(url), ext)

\* isValidUrl: new URL(url) does not throw.  Without a base this needs an
\* absolute URL: a scheme of letters, then ":" and more.
isValidUrl(url) ==
    /\ IsText(url)
    /\ \E k \in 2..(Len(url) - 1) :
          /\ CharAt(url, k) = ":"
          /\ \A j \in 1..(k - 1) : \E l \in 1..Len(LowerCaseLetters) :
                CharAt(ToLowerCase(url), j) = CharAt(LowerCaseLetters, l)

\* How testUrl(url) may end, per host.  A URL with an image extension goes to
\* testImageUrl, which always resolves: ok, 404 on the error event, 408 on its
\* own timeout.  Every other URL goes to fetch (HEAD, no-cors): any answer
\* counts as ok, a network failure or the abort after 8 s is thrown.
LinkOutcomes(url) ==
    IF isImageUrl(url)
    THEN IF url = "u8.PNG" THEN {"ok", "HTTP 404", "HTTP 408"} ELSE {"ok", "HTTP 404"}
    ELSE IF url = "u2" THEN {"ok", "Failed to fetch"} ELSE {"ok", "Request timeout"}

BrokenLink(ref, url, type, outcome) ==
    [artifact |-> Raw(ref).title, url |-> url, type |-> type, error |-> outcome]

\* `artifact.authorLink && this.isValidUrl(artifact.authorLink)`.
HasAuthorLink(ref) == IsText(Raw(ref).authorLink) /\ isValidUrl(Raw(ref).authorLink)

\* The loop body after the image block of the artifact at position i, with
\* `done` tests completed so far, up to its next await: the author test or the
\* delay(50).
AfterImage_NoCount(i, done) ==
    IF HasAuthorLink(artifacts[i])
    THEN [pc |-> "author", index |-> i, completed |-> done]
    ELSE [pc |-> "delay", index |-> i, completed |-> done + 1]

AfterImage(i, done) ==
    IF HasAuthorLink(artifacts[i])
    THEN [pc |-> "author", index |-> i, completed |-> done + 1]
    ELSE [pc |-> "delay", index |-> i, completed |-> done + 2]

\* The loop body for the artifact at position i up to its first await.
EnterArtifact(i, done) ==
    IF Raw(artifacts[i]).image # NoImage
    THEN [pc |-> "image", index |-> i, completed |-> done]
    ELSE AfterImage(i, done)

Suspend(at) ==
    /\ linkPc' = at.pc
    /\ linkIndex' = at.index
    /\ completed' = at.completed

\* displayTestResults and the finally block.
FinishLinkTest(broken) ==
    /\ testResults' = IF broken = <<>> THEN "all-working" ELSE "broken-list"
    /\ testButtonDisabled' = FALSE
    /\ linkPc' = "done"

LinkFrame ==
    /\ sortsInARow' = 0
    /\ UNCHANGED <<source, lateImages, statsVars, phase, artifacts, objs, pageVars, priorityArtifacts,
                   imageQualityCache, imageQualityMode, passVars, publishVars, probesIssued,
                   visited, priorityAtStart, passesStarted, externalCalls, cadenceVars>>

\* A click on #testLinksBtn (a disabled button dispatches no click).
handleLinkTest ==
    /\ UserCanAct
    /\ ~testButtonDisabled
    /\ brokenLinks' = <<>>
    /\ totalTests' = Len(artifacts) * 2
    /\ IF Len(artifacts) = 0
       THEN /\ FinishLinkTest(<<>>)
            /\ UNCHANGED <<linkIndex, completed>>
       ELSE /\ testButtonDisabled' = TRUE
            /\ testResults' = "empty"
            /\ \E at \in {EnterArtifact(1, 0)} : Suspend(at)
    /\ userEvents' = userEvents + 1
    /\ LinkFrame

\* The await of testUrl(artifact.image) settles.
ImageTestSettles ==
    /\ linkPc = "image"
    /\ AtMacrotask
    /\ \E outcome \in LinkOutcomes(Raw(artifacts[linkIndex]).image) :
          brokenLinks' =
             IF outcome = "ok" THEN brokenLinks
             ELSE Append(brokenLinks, BrokenLink(artifacts[linkIndex],
                                                 Raw(artifacts[linkIndex]).image,
                                                 "Image", outcome))
    /\ \E at \in {AfterImage(linkIndex, completed)} : Suspend(at)
    /\ UNCHANGED <<testButtonDisabled, testResults, totalTests, userEvents>>
    /\ LinkFrame

\* The await of testUrl(artifact.authorLink) settles.
AuthorTestSettles ==
    /\ linkPc = "author"
    /\ AtMacrotask
    /\ \E outcome \in LinkOutcomes(Raw(artifacts[linkIndex]).authorLink) :
          brokenLinks' =
             IF outcome = "ok" THEN brokenLinks
             ELSE Append(brokenLinks, BrokenLink(artifacts[linkIndex],
                                                 Raw(artifacts[linkIndex]).authorLink,
                                                 "Author Link", outcome))
    /\ completed' = completed + 1
    /\ linkPc' = "delay"
    /\ UNCHANGED <<linkIndex, testButtonDisabled, testResults, totalTests, userEvents>>
    /\ LinkFrame

\* The timer of delay(50) fires: the next artifact, or the end of the run.
LinkDelayFires ==
    /\ linkPc = "delay"
    /\ AtMacrotask
    /\ IF linkIndex < Len(artifacts)
       THEN /\ \E at \in {EnterArtifact(linkIndex + 1, completed)} : Suspend(at)
            /\ UNCHANGED <<testButtonDisabled, testResults>>
       ELSE /\ FinishLinkTest(brokenLinks)
            /\ UNCHANGED <<linkIndex, completed>>
    /\ UNCHANGED <<brokenLinks, totalTests, userEvents>>
    /\ LinkFrame

\* The load or error event of an Image whose promise the timeout has already
\* rejected: the handler calls clearTimeout on a timer that has fired and
\* resolve or reject on a settled promise, which has no effect; no
\* continuation of analyzeImageQuality runs.
LateImageEvent_SettlesAgain ==
    /\ AtMacrotask
    /\ \E p \in lateImages :
          /\ lateImages' = lateImages \ {p}
          /\ \E scores \in {calculateEnhancedQualityScores(ImageDims(p.url)[1],
                                                             ImageDims(p.url)[2])} :
                /\ objs' = [objs EXCEPT ![p.ref] = scores]
                /\ imageQualityCache' = CachePut(imageQualityCache, p.url, CacheEntry(scores))
    /\ UNCHANGED <<source, phase, artifacts, pageVars, priorityArtifacts, imageQualityMode,
                   passVars, publishVars, histVars, cadenceVars, statsVars, sortsInARow,
                   linkVars>>

LateImageEvent ==
    /\ AtMacrotask
    /\ \E p \in lateImages : lateImages' = lateImages \ {p}
    /\ UNCHANGED <<source, phase, artifacts, objs, pageVars, priorityArtifacts,
                   imageQualityCache, imageQualityMode, passVars, publishVars, histVars,
                   cadenceVars, statsVars, sortsInARow, linkVars>>

PassStep == CallAnalyze \/ LoopBody \/ DelayFires \/ PassFinish

ProbeSettles == ProbeLoad \/ ProbeError \/ ProbeTimeout

UserEvent ==
    \/ handleSortChange
    \/ handleLoadMore
    \/ throttledScrollHandler
    \/ handleImageQualityModeChange

Next ==
    \/ initLoaded
    \/ initFailed
    \/ CallAnalyze
    \/ ProbeLoad
    \/ ProbeError
    \/ ProbeTimeout
    \/ LoopBody
    \/ DelayFires
    \/ PassFinish
    \/ handleSortChange
    \/ handleLoadMore
    \/ throttledScrollHandler
    \/ handleImageQualityModeChange

\* The page as it runs: init once, then the pass and the user's events.
Spec == Init /\ [][Next]_vars

\* The page with a second caller of startImageQualityAnalysis.
NextReentrant == Next \/ startImageQualityAnalysis

InitSmall == Init /\ source \in SmallSources \cup FailingSources

SpecReentrant == InitSmall /\ [][NextReentrant]_vars

\* The page with the bulk link test.
NextLinkTest ==
    \/ Next
    \/ handleLinkTest
    \/ ImageTestSettles
    \/ AuthorTestSettles
    \/ LinkDelayFires

InitLinkTest == Init /\ source \in {"links", "empty"}

SpecLinkTest == InitLinkTest /\ [][NextLinkTest]_vars

\* The page with the late events of images whose probe has timed out.
NextLateEvents == Next \/ LateImageEvent

SpecLateEvents == InitSmall /\ [][NextLateEvents]_vars

\* The page with its teardown: destroy can run at any point where a task can start.
NextTeardown == Next \/ destroy

SpecTeardown == InitSmall /\ [][NextTeardown]_vars


\* The page under the scheduling the host guarantees: a runnable continuation of
\* the pass runs, a timer fires, and a pending probe settles (by load, by error or
\* by its 8 s timeout).
FairSpec ==
    /\ InitSmall
    /\ [][Next]_vars
    /\ WF_vars(PassStep)
    /\ WF_vars(ProbeSettles)

(***************************************************************************)
(* Properties.                                                             *)
(***************************************************************************)
Refs == DOMAIN objs

Scored(fields) == fields.imageQuality \notin {NullLabel, "No Image", "Analysis Failed"}

Analyzed(fields) == fields.imageQuality # NullLabel

RECURSIVE SumProbes(_)
SumProbes(us) ==
    IF us = {} THEN 0
    ELSE LET u == CHOOSE x \in us : TRUE IN probesIssued[u] + SumProbes(us \ {u})

TotalProbes == SumProbes(Urls)

\* C1: a call of startImageQualityAnalysis while a pass is in progress is a
\* no-op: no second loop is started, no probe is issued, and the progress
\* counters, the position of the pass and every artifact stay as they are.
C1_SingleFlight ==
    [][(externalCalls' # externalCalls /\ imageAnalysisInProgress)
         => UNCHANGED <<passVars, passesStarted, probesIssued, visited, objs,
                        imageQualityCache, priorityArtifacts, publishVars>>]_vars

\* C1 witness: the second call came while the first pass was probing, and the
\* pass went on from where it was.
C1_Witness ==
    /\ externalCalls = 1
    /\ passesStarted = 1
    /\ imageAnalysisInProgress
    /\ imageAnalysisProgress.current > 0
    /\ inflight # {}

\* C2: at most one probe is pending, and it is the probe of the artifact the
\* loop is waiting for; no probe is pending while the loop runs.
C2_OneProbeInFlight ==
    /\ Cardinality(inflight) <= 1
    /\ \A p \in inflight : Awaited(p.ref)

\* C2 witness: a probe is pending after an earlier probe of the pass has settled.
C2_Witness ==
    /\ inflight # {}
    /\ TotalProbes >= 2
    /\ passIndex >= 1

\* A step in which the pass hands artifact r to analyzeImageQuality.
Visits(r) == visited' = Append(visited, r)

\* C3 as stated: once one of two artifacts with the same URL has been analyzed
\* (whatever the outcome), analyzing the other scores it with the same tuple and
\* issues no probe.
C3_AsStated ==
    [][\A r \in Refs : \A q \in Refs \ {r} :
         (/\ Visits(r)
          /\ Raw(r).image # NoImage
          /\ Raw(q).image = Raw(r).image
          /\ Analyzed(objs[q]))
         => (/\ probesIssued' = probesIssued
             /\ Scored(objs'[r])
             /\ objs'[r] = objs[q])]_vars

\* C3 amended: once one of two artifacts with the same URL is Scored, analyzing
\* the other scores it with the same tuple, at once and without a probe.
C3_CacheCorrectness ==
    [][\A r \in Refs : \A q \in Refs \ {r} :
         (/\ Visits(r)
          /\ Raw(r).image # NoImage
          /\ Raw(q).image = Raw(r).image
          /\ Scored(objs[q]))
         => (/\ probesIssued' = probesIssued
             /\ inflight' = inflight
             /\ pc' = "settled"
             /\ Scored(objs'[r])
             /\ objs'[r] = objs[q])]_vars

\* C3 witness: two artifacts with the same URL are Scored with the same tuple
\* after one probe of that URL.
C3_Witness ==
    \E r \in Refs : \E q \in Refs \ {r} :
      /\ Raw(r).image = Raw(q).image
      /\ Scored(objs[r])
      /\ Scored(objs[q])
      /\ objs[r] = objs[q]
      /\ probesIssued[Raw(r).image] = 1

\* The order the spec prescribes: the artifacts whose id is in the Priority Set
\* in collection order, then the others in collection order.
PriorityFirst(arts, prio) ==
    SelectSeq(arts, LAMBDA r : ArtifactId(r) \in prio)
    \o SelectSeq(arts, LAMBDA r : ArtifactId(r) \notin prio)

\* C4: the artifacts a pass has visited so far are a prefix of the collection
\* reordered with the Priority Set of the pass start first, each group in
\* collection order; the work list of the pass is that order.
C4_PriorityOrder ==
    passesStarted > 0 =>
      LET want == PriorityFirst(artifacts, priorityAtStart)
      IN /\ Len(visited) <= Len(want)
         /\ visited = SubSeq(want, 1, Len(visited))
         /\ artifactsToAnalyze = want

\* C4 witness: a pass has visited the whole collection, a prioritized artifact
\* before an artifact that precedes it in the collection.
C4_Witness ==
    /\ pc = "done"
    /\ Len(visited) = Len(artifacts)
    /\ \E k \in 1..Len(visited) : \E l \in 1..Len(visited) :
         /\ k < l
         /\ visited[k] > visited[l]
         /\ ArtifactId(visited[k]) \in priorityAtStart
         /\ ArtifactId(visited[l]) \notin priorityAtStart

\* C5: while a pass runs its work list does not change, and the artifact it
\* analyzes next is the next of that list, whatever the Priority Set is by then.
C5_OrderFixedAtStart ==
    [][/\ (imageAnalysisInProgress /\ imageAnalysisInProgress')
            => artifactsToAnalyze' = artifactsToAnalyze
       /\ (visited' # visited /\ imageAnalysisInProgress)
            => /\ Len(visited) < Len(artifactsToAnalyze)
               /\ visited' = Append(visited, artifactsToAnalyze[Len(visited) + 1])]_vars

\* C5 witness: after a user event has changed the Priority Set, the pass is about
\* to analyze an artifact that is not prioritized any more while an artifact
\* that is prioritized now is still waiting.
C5_Witness ==
    /\ pc = "call"
    /\ userEvents > 0
    /\ priorityArtifacts # priorityAtStart
    /\ ArtifactId(artifactsToAnalyze[passIndex + 1]) \notin priorityArtifacts
    /\ \E k \in (passIndex + 2)..Len(artifactsToAnalyze) :
         ArtifactId(artifactsToAnalyze[k]) \in priorityArtifacts

\* a === b + c and 0 <= a <= 100 on JavaScript numbers (false for NaN).
JsScoreSum(a, b, c) == a # NaN /\ b # NaN /\ c # NaN /\ a = b + c /\ 0 <= a /\ a <= 100

\* C6: every artifact has imageQualityScore == aspectRatioScore + pixelSizeScore
\* and 0 <= imageQualityScore <= 100, in every state.
C6_ScoreInvariant ==
    \A r \in Refs :
      JsScoreSum(objs[r].imageQualityScore, objs[r].aspectRatioScore,
                 objs[r].pixelSizeScore)

FailsIn(p) == p \in inflight /\ p \notin inflight' /\ p.url \notin DOMAIN imageQualityCache'

\* C8: a failing probe marks its artifact 'Analysis Failed' with score 0 and
\* lets the pass go on; the pass never shows its error outcome.
C8_FailureIsLocal ==
    /\ [](phase = "ready" => avgDisplay.text # "Error")
    /\ [][\A p \in inflight :
            FailsIn(p) =>
              /\ objs'[p.ref] = [Unscored EXCEPT !.imageQuality = "Analysis Failed"]
              /\ imageAnalysisInProgress'
              /\ pc' = "settled"
              /\ passIndex' = passIndex]_vars

\* C8 witness: a pass is complete although a probe of it failed.
C8_Witness ==
    /\ pc = "done"
    /\ avgDisplay.note = "Complete"
    /\ Len(visited) = Len(artifacts)
    /\ \E r \in Refs : objs[r].imageQuality = "Analysis Failed"
    /\ \E r \in Refs : Scored(objs[r]) /\ \E k \in 1..Len(visited) : \E l \in 1..Len(visited) :
         k < l /\ visited[l] = r /\ objs[visited[k]].imageQuality = "Analysis Failed"

\* C9: analyzing an artifact without image sets score 0 and label 'No Image',
\* issues no probe and leaves the cache unchanged.
C9_NoImage ==
    [][\A r \in Refs :
         (Visits(r) /\ Raw(r).image = NoImage)
         => (/\ objs'[r].imageQualityScore = 0
             /\ objs'[r].imageQuality = "No Image"
             /\ probesIssued' = probesIssued
             /\ inflight' = inflight
             /\ imageQualityCache' = imageQualityCache)]_vars

\* C9 witness: an artifact without image has been analyzed.
C9_Witness ==
    \E r \in Refs : Raw(r).image = NoImage /\ objs[r].imageQuality = "No Image"

\* The pass is complete.
PassComplete ==
    /\ pc = "done"
    /\ ~imageAnalysisInProgress
    /\ imageAnalysisProgress.current = imageAnalysisProgress.total
    /\ imageAnalysisProgress.total = Len(artifacts)
    /\ Len(visited) = Len(artifacts)
    /\ \A r \in Refs : Analyzed(objs[r]) /\ Cardinality({k \in 1..Len(visited) : visited[k] = r}) = 1

\* C10: under fairness a started pass completes: every artifact analyzed
\* exactly once and labelled, current = total, imageAnalysisInProgress false.
C10_PassCompletes == imageAnalysisInProgress ~> PassComplete

\* C10 witness: a pass over a collection with probes that loaded, failed and
\* timed out is complete.
C10_Witness ==
    /\ PassComplete
    /\ Len(artifacts) >= 4
    /\ TotalProbes >= 2
    /\ \E r \in Refs : objs[r].imageQuality = "Analysis Failed"

\* The artifacts of a sequence of cards, in document order.
CardRefs(cards) == [k \in 1..Len(cards) |-> cards[k].ref]

\* An empty view over the first 30 artifacts of the collection.
ThirtyPage ==
    [sorted |-> [k \in 1..30 |-> k], displayed |-> 0, cards |-> <<>>, prio |-> {},
     shown |-> TRUE]

\* loadMoreArtifacts called n times in a row on page state pg.
RECURSIVE LoadTimes(_, _)
LoadTimes(pg, n) ==
    IF n = 0 THEN pg
    ELSE loadMoreArtifacts(LoadTimes(pg, n - 1), FALSE, objs, imageQualityMode)

\* What C11 says of one loadMoreArtifacts call, on the step that makes it.
LoadMoreEffect ==
    LET d == displayedArtifacts
        n == Len(sortedArtifacts)
        end == IF d + 12 <= n THEN d + 12 ELSE n
    IN IF isLoading \/ d >= n
       THEN UNCHANGED <<displayedArtifacts, rendered, loadMoreShown, sortedArtifacts>>
       ELSE /\ displayedArtifacts' = end
            /\ Len(rendered') = Len(rendered) + (end - d)
            /\ SubSeq(rendered', 1, Len(rendered)) = rendered
            /\ CardRefs(SubSeq(rendered', Len(rendered) + 1, Len(rendered')))
                 = SubSeq(sortedArtifacts, d + 1, end)
            /\ loadMoreShown' = (end # n)
            /\ UNCHANGED sortedArtifacts

\* C11: loadMoreArtifacts changes nothing while a load is in flight or when
\* every artifact is rendered; otherwise it appends the next 12 artifacts of
\* the sorted sequence (or those that are left) in order, advances
\* displayedArtifacts to that bound and hides the button exactly when the bound
\* is the length.  Over 30 artifacts the counts are 12, 24, 30, and a fourth
\* call changes nothing.
C11_LoadMore ==
    /\ [](loadMoreArtifacts(CurrentPage, TRUE, objs, imageQualityMode) = CurrentPage)
    /\ []((source = "large" /\ phase = "ready") =>
            /\ LoadTimes(ThirtyPage, 1).displayed = 12
            /\ LoadTimes(ThirtyPage, 2).displayed = 24
            /\ LoadTimes(ThirtyPage, 2).shown
            /\ LoadTimes(ThirtyPage, 3).displayed = 30
            /\ CardRefs(LoadTimes(ThirtyPage, 3).cards) = ThirtyPage.sorted
            /\ ~LoadTimes(ThirtyPage, 3).shown
            /\ LoadTimes(ThirtyPage, 4) = LoadTimes(ThirtyPage, 3))
    /\ [][(userEvents' # userEvents /\ handleLoadMore) => LoadMoreEffect]_vars

\* C11 witness: two load-more events have brought the view from 12 to 36 cards
\* of a longer sequence.
C11_Witness ==
    /\ userEvents = 2
    /\ displayedArtifacts = 36
    /\ Len(rendered) = 36
    /\ CardRefs(rendered) = SubSeq(sortedArtifacts, 1, 36)
    /\ Len(sortedArtifacts) > 36
    /\ loadMoreShown

\* C12: after applySorting(key) the view holds exactly the cards of the first
\* min(12, N) artifacts of the new order, made from the artifacts as they are
\* now, and displayedArtifacts = min(12, N), whatever was rendered before.
C12_SortResetsView ==
    [][(userEvents' # userEvents /\ handleSortChange) =>
         \E order \in {getSortedArtifacts(artifacts, objs, currentSort')} :
         \E m \in {IF Len(artifacts) < 12 THEN Len(artifacts) ELSE 12} :
            /\ sortedArtifacts' = order
            /\ displayedArtifacts' = m
            /\ Len(rendered') = m
            /\ \A k \in 1..m :
                 rendered'[k] = createFullArtifactCard(objs, order[k], imageQualityMode)]_vars

\* C12 witness: during the pass the user has chosen another sort; the view is
\* the first page of an order that starts differently from the initial one.
C12_Witness ==
    /\ imageAnalysisInProgress
    /\ userEvents = 2
    /\ currentSort = "year-oldest"
    /\ Len(sortedArtifacts) > 24
    /\ displayedArtifacts = 12
    /\ CardRefs(rendered) = SubSeq(sortedArtifacts, 1, 12)
    /\ CardRefs(rendered) # SubSeq(getSortedArtifacts(artifacts, objs, "year-newest"), 1, 12)

\* The first count artifacts by a metric, best first (or worst first), among
\* the artifacts that are Scored.
TopOfScored(arts, heap, mode, count) ==
    LET scored == SelectSeq(arts, LAMBDA r : Scored(heap[r]))
        cmp == [p \in Range(arts) \X Range(arts) |->
                  ScoreDiff(getScoreByMode(heap, p[2], mode), getScoreByMode(heap, p[1], mode))]
    IN Slice(SortBy(scored, cmp), 0, count)

BottomOfScored(arts, heap, mode, count) ==
    LET scored == SelectSeq(arts, LAMBDA r : Scored(heap[r]))
        cmp == [p \in Range(arts) \X Range(arts) |->
                  ScoreDiff(getScoreByMode(heap, p[1], mode), getScoreByMode(heap, p[2], mode))]
    IN Slice(SortBy(scored, cmp), 0, count)

\* The Priority Set as C13 describes it, for a window that starts displayed
\* artifacts into the sorted sequence.
DescribedPrioritySet(arts, heap, sorted, displayed) ==
    {ArtifactId(sorted[k]) :
       k \in 1..(IF displayed + 24 <= Len(sorted) THEN displayed + 24 ELSE Len(sorted))}
    \cup UNION {{ArtifactId(r) : r \in Range(TopOfScored(arts, heap, m, 5))
                                      \cup Range(BottomOfScored(arts, heap, m, 5))}
                : m \in Modes}

\* C13: right after updatePriorityArtifacts (at the start of a pass, and in
\* applySorting, which calls it with displayedArtifacts = 0) the Priority Set
\* is the ids of the window of the sorted sequence together with the ids of
\* the top 5 and bottom 5 Scored artifacts by each metric, and nothing else.
C13_PrioritySetExact ==
    [][/\ passesStarted' # passesStarted
          => priorityArtifacts' = DescribedPrioritySet(artifacts', objs', sortedArtifacts',
                                                       displayedArtifacts')
       /\ (userEvents' # userEvents /\ handleSortChange)
          => priorityArtifacts' = DescribedPrioritySet(artifacts, objs, sortedArtifacts', 0)]_vars

\* The ids of the rendered artifacts and of the next two pages of the sorted
\* sequence, in the state a step leads to.
WindowIdsAfter ==
    {ArtifactId(sortedArtifacts'[k]) :
       k \in 1..(IF displayedArtifacts' + 24 <= Len(sortedArtifacts')
                 THEN displayedArtifacts' + 24 ELSE Len(sortedArtifacts'))}

\* C14: after every applySorting and after every loadMoreArtifacts that
\* advances displayedArtifacts, the Priority Set contains the ids of all
\* rendered artifacts and of the next 24 artifacts of the sorted sequence.
C14_WindowPrioritized ==
    [][((userEvents' # userEvents /\ handleSortChange)
        \/ displayedArtifacts' > displayedArtifacts)
         => WindowIdsAfter \subseteq priorityArtifacts']_vars

\* C15: a change of the quality metric publishes the top 5 and bottom 5 of the
\* new metric, computed from the artifacts as they are, and starts no probe; it
\* leaves the artifacts' fields, the cache, the progress and position of the
\* pass, the sorted sequence, displayedArtifacts, the rendered cards and the
\* Priority Set as they were.
C15_ModeChangeFrame ==
    [][imageQualityMode' # imageQualityMode =>
         /\ UNCHANGED <<objs, imageQualityCache, probesIssued, inflight,
                        imageAnalysisProgress, imageAnalysisInProgress, pc, passIndex,
                        sortedArtifacts, displayedArtifacts, rendered, priorityArtifacts>>
         /\ highestList'.items = getTopArtifactsByMode(artifacts, objs, imageQualityMode', 5)
         /\ lowestList'.items = getBottomArtifactsByMode(artifacts, objs, imageQualityMode', 5)]_vars

\* C15 witness: while a probe is pending the lists show another metric than the
\* initial one, with scored artifacts in them and entries in the cache.
C15_Witness ==
    /\ imageQualityMode = "pixel-size"
    /\ highestList.mode = "pixel-size"
    /\ Len(highestList.items) >= 2
    /\ inflight # {}
    /\ DOMAIN imageQualityCache # {}

\* Sum and count of imageQualityScore over the artifacts whose dimensions were
\* measured.
ScoredScores(arts, heap) ==
    LET scored == SelectSeq(arts, LAMBDA r : Scored(heap[r]))
        Sum[k \in 0..Len(scored)] ==
          IF k = 0 THEN 0 ELSE JsAdd(Sum[k - 1], heap[scored[k]].imageQualityScore)
    IN [sum |-> Sum[Len(scored)], count |-> Len(scored)]

\* The two means are the same number (both 0 when nothing is counted).
SameMean(a, b) ==
    IF a.sum = NaN \/ b.sum = NaN THEN FALSE
    ELSE IF a.count = 0 \/ b.count = 0
         THEN (a.count = 0 \/ a.sum = 0) /\ (b.count = 0 \/ b.sum = 0)
         ELSE a.sum * b.count = b.sum * a.count

\* C16: after every analysis of a pass the published running average is the
\* rounded mean of imageQualityScore over all artifacts scored so far (0 when
\* there is none), and when the pass is complete averageImageQuality is that
\* mean over the collection.
C16_RunningAverage ==
    /\ [][(pc = "settled" /\ pc' # "settled") =>
            \E m \in {ScoredScores(artifacts', objs')} :
               /\ m.sum # NaN
               /\ avgDisplay'.value = RoundedAverage(m)]_vars
    /\ [](pc = "done" => SameMean(averageImageQuality, ScoredScores(artifacts, objs)))

\* The lists and the rendered cards after the step are the ones recomputed from
\* the artifacts as they are.
Republished ==
    /\ \E lists \in {updateImageQualityListsProgressive(artifacts, objs, imageQualityMode,
                                                        highestList, lowestList)} :
          highestList' = lists[1] /\ lowestList' = lists[2]
    /\ rendered' = updateVisibleArtifactCards(rendered, artifacts, objs)
    /\ sincePublish' = 0

\* C17: during a pass no 5 consecutive analyses go by without the lists and the
\* card labels being republished; an analysis of an artifact whose id is in
\* the Priority Set at that moment is followed immediately by a republication;
\* and the end of the pass republishes once more.
C17_RepublishCadence ==
    /\ [](sincePublish <= 4)
    /\ [][(pc = "settled" /\ pc' # "settled"
             /\ ArtifactId(artifactsToAnalyze[passIndex + 1]) \in priorityArtifacts)
            => Republished]_vars
    /\ [][(pc = "finish" /\ pc' = "done") => Republished]_vars

\* C17 witness: two analyses in a row were not followed by a republication, and
\* the artifact just analyzed, not a fifth one, is in the Priority Set.
C17_Witness ==
    /\ pc = "settled"
    /\ sincePublish >= 2
    /\ passIndex % 5 # 0
    /\ ArtifactId(artifactsToAnalyze[passIndex + 1]) \in priorityArtifacts

\* C18: a pass never runs more than 10 analyses without sleeping: the tenth
\* analysis since the last sleep is followed by one, and while the loop sleeps
\* the handlers of the user's events (sort change, load more, mode change) can
\* run, whether or not any of the analyses had to wait for a probe.
C18_YieldEveryTen ==
    /\ sinceDelay <= 10
    /\ (pc # "delay" => sinceDelay <= 9)
    /\ (pc = "delay" /\ phase = "ready" /\ userEvents < MaxUserEvents
          => /\ ENABLED handleSortChange
             /\ ENABLED handleImageQualityModeChange
             /\ (loadMoreShown => ENABLED handleLoadMore))

\* C18 witness: the loop sleeps after 10 analyses in a row, none of which
\* waited for a probe (no image, or served from the cache), and a user event
\* can still be taken.
C18_Witness ==
    /\ pc = "delay"
    /\ sinceDelay = 10
    /\ passIndex = 20
    /\ \A k \in 11..21 : Raw(artifactsToAnalyze[k]).image \in {NoImage} \cup {"u1"}
    /\ "u1" \in DOMAIN imageQualityCache
    /\ userEvents < MaxUserEvents

\* C19: an entry of the image quality cache is never removed or changed: every
\* URL in the cache before a step is in it after the step, with the same value,
\* whichever of the analysis, sort, pagination and mode-change steps it is.
C19_CacheNeverEvicted ==
    [][\A u \in DOMAIN imageQualityCache :
          u \in DOMAIN imageQualityCache' /\ imageQualityCache'[u] = imageQualityCache[u]]_vars

\* C19 witness: three URLs are cached, a later analysis was served from the
\* cache, and the user has changed the sort order and the metric meanwhile.
C19_Witness ==
    /\ Cardinality(DOMAIN imageQualityCache) >= 3
    /\ \E k \in 1..Len(visited) : \E l \in 1..(k - 1) :
          /\ Raw(visited[k]).image = Raw(visited[l]).image
          /\ Raw(visited[k]).image \in DOMAIN imageQualityCache
    /\ currentSort # "year-newest"
    /\ imageQualityMode # "overall"

\* C20: after destroy the cache is empty and stays empty, no probe (with its
\* 8 s timeout) and no sleep of the loop is pending, and no further probe is
\* started, also when destroy happens while a pass is in flight.
C20_TeardownReleases ==
    /\ [](phase = "destroyed" =>
            /\ imageQualityCache = <<>>
            /\ inflight = {}
            /\ pc # "delay")
    /\ [][phase = "destroyed" => probesIssued' = probesIssued]_vars

\* C21: when the data source is unreachable, answers with a non-success
\* status, has no artifacts sequence or has no artifacts, init ends in the
\* error state: no statistics and no chart are computed, no sorted view and no
\* page exist, and no analysis pass is started (imageAnalysisInProgress is
\* false, no probe is issued).
C21_FatalLoadFailure ==
    (source \in FailingSources /\ phase # "loading") =>
        /\ phase = "error"
        /\ avgDisplay.text = "Error"
        /\ authorStats = <<>> /\ licenseStats = <<>> /\ timeframeCounts = <<>>
        /\ sortedArtifacts = <<>> /\ displayedArtifacts = 0 /\ rendered = <<>>
        /\ priorityArtifacts = {}
        /\ ~imageAnalysisInProgress
        /\ passesStarted = 0
        /\ pc = "idle"
        /\ TotalProbes = 0 /\ inflight = {}

\* C21 witness: the source answered with a well-formed payload without
\* artifacts, and init has finished.
C21_Witness == source = "empty" /\ phase = "error"

\* Number of artifacts of the collection with the same normalized license
\* (author) as the artifact r.
LicenseCount(r) ==
    Cardinality({q \in Range(artifacts) :
                   normalizeLicense(Raw(q).license, Raw(q).author)
                     = normalizeLicense(Raw(r).license, Raw(r).author)})

AuthorCount(r) ==
    Cardinality({q \in Range(artifacts) :
                   normalizeAuthor(Raw(q).author) = normalizeAuthor(Raw(r).author)})

NonDecreasing(s) == \A k \in 1..(Len(s) - 1) : s[k] <= s[k + 1]
NonIncreasing(s) == \A k \in 1..(Len(s) - 1) : s[k] >= s[k + 1]

\* C22: the license-rare (author-rare) view lists the artifacts by
\* non-decreasing count of their license (author), rarest first, the
\* license-common (author-common) view by non-increasing count; when two
\* labels have different counts the rare and the common view differ.
C22_FrequencyOrder ==
    LET licenseCounts == [k \in 1..Len(sortedArtifacts) |-> LicenseCount(sortedArtifacts[k])]
        authorCounts == [k \in 1..Len(sortedArtifacts) |-> AuthorCount(sortedArtifacts[k])]
    IN /\ currentSort = "license-rare" => NonDecreasing(licenseCounts)
       /\ currentSort = "license-common" => NonIncreasing(licenseCounts)
       /\ currentSort = "author-rare" => NonDecreasing(authorCounts)
       /\ currentSort = "author-common" => NonIncreasing(authorCounts)
       /\ (phase = "ready" /\ \E e, f \in DOMAIN licenseStats :
                                  licenseStats[e].count # licenseStats[f].count)
            => getSortedArtifacts(artifacts, objs, "license-rare")
                 # getSortedArtifacts(artifacts, objs, "license-common")

\* The primary key of an artifact under a sort key.
PrimaryKey(heap, r, sortType) ==
    CASE sortType \in {"year-newest", "year-oldest"} -> <<"year", Raw(r).year>>
      [] sortType \in {"title-longest", "title-shortest"} -> <<"length", titleLength(r)>>
      [] sortType \in {"description-longest", "description-shortest"} ->
           <<"length", descriptionLength(r)>>
      [] sortType \in {"image-high-quality", "image-low-quality"} ->
           <<"score", heap[r].imageQualityScore>>
      [] sortType \in {"license-common", "license-rare"} ->
           <<"label", normalizeLicense(Raw(r).license, Raw(r).author)>>
      [] OTHER -> <<"label", normalizeAuthor(Raw(r).author)>>

\* Artifacts with the same primary key are in the order of their titles.
TiesByTitle(sorted, heap, sortType) ==
    \A k, l \in 1..Len(sorted) :
       (k < l /\ PrimaryKey(heap, sorted[k], sortType) = PrimaryKey(heap, sorted[l], sortType))
         => localeCompare(Raw(sorted[k]).title, Raw(sorted[l]).title) <= 0

\* C23: whenever a sorted view is computed, for whichever key, artifacts with
\* equal primary key (year, length, score or frequency rank) appear in it in
\* lexicographic order of their titles.
C23_TitleTieBreak ==
    [][(sortedArtifacts' # sortedArtifacts \/ currentSort' # currentSort)
         => TiesByTitle(sortedArtifacts', objs', currentSort')]_vars

\* The years of the artifacts of a view, in the order of the view.
YearsOf(sorted) ==
    LET recs == Collection(source)
    IN [k \in 1..Len(sorted) |-> recs[sorted[k]].year]

\* A sequence of years in which the missing years come last and the others are
\* non-increasing (newestFirst) or non-decreasing.
YearsOrdered(years, newestFirst) ==
    \A k, l \in 1..Len(years) :
       k < l =>
         /\ years[k] = NoYear => years[l] = NoYear
         /\ (years[k] # NoYear /\ years[l] # NoYear) =>
               IF newestFirst THEN years[k] >= years[l] ELSE years[k] <= years[l]

\* C24: in both year views every artifact without a year comes after every
\* artifact with a year; the years are non-increasing in the year-newest view
\* and non-decreasing in the year-oldest view.
C24_YearOrder ==
    \E years \in {YearsOf(sortedArtifacts)} :
       /\ currentSort = "year-newest" => YearsOrdered(years, TRUE)
       /\ currentSort = "year-oldest" => YearsOrdered(years, FALSE)

\* C24 witness: the year-oldest view of a collection in which an artifact
\* without a year stands before artifacts with a year, and years repeat.
C24_Witness ==
    /\ currentSort = "year-oldest"
    /\ Len(sortedArtifacts) >= 5
    /\ \E k, l \in 1..Len(artifacts) :
          k < l /\ Raw(artifacts[k]).year = NoYear /\ Raw(artifacts[l]).year # NoYear
    /\ Raw(sortedArtifacts[1]).year < 0
    /\ Raw(sortedArtifacts[Len(sortedArtifacts)]).year = NoYear

\* The scores of the artifacts of a view, in the order of the view.
ScoresOf(sorted, heap) == [k \in 1..Len(sorted) |-> heap[sorted[k]].imageQualityScore]

\* Ascending view: the artifacts with score 0 come after those with a positive
\* score, and the positive scores do not decrease.
LowQualityOrdered(scores) ==
    \A k, l \in 1..Len(scores) :
       k < l =>
         /\ scores[k] = 0 => ~JsPositive(scores[l])
         /\ (JsPositive(scores[k]) /\ JsPositive(scores[l])) => scores[k] <= scores[l]

\* Descending view: the scores do not increase (so the zeros trail).
HighQualityOrdered(scores) ==
    \A k, l \in 1..Len(scores) :
       (k < l /\ scores[k] # NaN /\ scores[l] # NaN) => scores[k] >= scores[l]

\* C25: a view computed for image-low-quality has every artifact of score 0
\* after every artifact of positive score and the positive scores in
\* non-decreasing order; a view computed for image-high-quality has the scores
\* in non-increasing order.
C25_QualityOrder ==
    [][(sortedArtifacts' # sortedArtifacts \/ currentSort' # currentSort) =>
         \E scores \in {ScoresOf(sortedArtifacts', objs')} :
            /\ currentSort' = "image-low-quality" => LowQualityOrdered(scores)
            /\ currentSort' = "image-high-quality" => HighQualityOrdered(scores)]_vars

\* C26: applying applySorting a second time with the same key, with no step
\* in between that could change the collection, gives the same sorted
\* sequence, the same rendered first page and the same displayedArtifacts as
\* the first time.
C26_SortIdempotent ==
    [][sortsInARow' >= 2 =>
         /\ sortedArtifacts' = sortedArtifacts
         /\ rendered' = rendered
         /\ displayedArtifacts' = displayedArtifacts
         /\ objs' = objs]_vars

\* C26 witness: year-newest has just been applied twice in a row to a view of
\* several artifacts that is not in collection order.
C26_Witness ==
    /\ sortsInARow >= 2
    /\ currentSort = "year-newest"
    /\ Len(sortedArtifacts) >= 5
    /\ Len(rendered) = displayedArtifacts
    /\ sortedArtifacts # artifacts

\* The labels of a frequency table and their counts, in table order.
LicenseLabels(stats) == [e \in 1..Len(stats) |-> stats[e].license]
AuthorLabels(stats) == [e \in 1..Len(stats) |-> stats[e].author]
TableCounts(stats) == [e \in 1..Len(stats) |-> stats[e].count]

\* Position in the collection of the first record with the given label.
FirstOccurrence(labelOf, label) ==
    CHOOSE k \in DOMAIN labelOf : labelOf[k] = label /\ \A j \in 1..(k - 1) : labelOf[j] # label

\* A frequency table for the labels labelOf[k] of the records: one entry per
\* distinct label with the number of its records, by descending count, equal
\* counts by first occurrence.
IsFrequencyTable(labels, counts, labelOf) ==
    /\ Len(labels) = Cardinality(Range(labelOf))
    /\ Range(labels) = Range(labelOf)
    /\ \A e \in DOMAIN labels :
          counts[e] = Cardinality({k \in DOMAIN labelOf : labelOf[k] = labels[e]})
    /\ \A e, f \in DOMAIN labels :
          e < f => \/ counts[e] > counts[f]
                   \/ /\ counts[e] = counts[f]
                      /\ FirstOccurrence(labelOf, labels[e]) < FirstOccurrence(labelOf, labels[f])

RECURSIVE SumSeq(_)
SumSeq(s) == IF s = <<>> THEN 0 ELSE Head(s) + SumSeq(Tail(s))

\* C27: once the collection is loaded, the license table and the author table
\* each hold one entry per distinct normalized label with its number of
\* artifacts, the counts sum to the size of the collection, the entries are in
\* descending order of count, and entries of equal count are in the order in
\* which their labels first occur in the collection.
C27_FrequencyTables ==
    phase = "ready" =>
       \E recs \in {Collection(source)} :
          /\ IsFrequencyTable(LicenseLabels(licenseStats),
                              TableCounts(licenseStats),
                              [k \in 1..Len(recs) |->
                                 normalizeLicense(recs[k].license, recs[k].author)])
          /\ IsFrequencyTable(AuthorLabels(authorStats),
                              TableCounts(authorStats),
                              [k \in 1..Len(recs) |-> normalizeAuthor(recs[k].author)])
          /\ SumSeq(TableCounts(licenseStats)) = Len(recs)
          /\ SumSeq(TableCounts(authorStats)) = Len(recs)

\* C27 witness: a license table in which a label that occurs later in the
\* collection has overtaken an earlier one by count, and labels of equal
\* count follow one another.
C27_Witness ==
    /\ phase = "ready"
    /\ Len(licenseStats) >= 4
    /\ \E e \in 1..(Len(licenseStats) - 1) : licenseStats[e].count = licenseStats[e + 1].count
    /\ \E e, f \in DOMAIN licenseStats :
          /\ e < f
          /\ licenseStats[e].count > licenseStats[f].count
          /\ \E recs \in {Collection(source)} :
                \E k, l \in DOMAIN recs :
                   /\ k < l
                   /\ normalizeLicense(recs[k].license, recs[k].author) = licenseStats[f].license
                   /\ \A j \in 1..l : normalizeLicense(recs[j].license, recs[j].author)
                                         = licenseStats[e].license => j = l

\* A text value that is missing (absent or not a string) or has only spaces.
MissingOrBlank(v) ==
    v \in {Undefined, NotAString} \/ \A k \in 1..Len(v) : CharAt(v, k) = " "

\* t is v without its leading and trailing spaces.
IsTrimmed(v, t) ==
    /\ t # ""
    /\ CharAt(t, 1) # " " /\ CharAt(t, Len(t)) # " "
    /\ \E i \in 1..(Len(v) - Len(t) + 1) :
          /\ SubSeq(v, i, i + Len(t) - 1) = t
          /\ \A k \in 1..Len(v) : (k < i \/ k > i + Len(t) - 1) => CharAt(v, k) = " "

\* Two strings that are equal up to the case of their letters.
SameIgnoringCase(a, b) ==
    /\ Len(a) = Len(b)
    /\ \A k \in 1..Len(a) :
          \/ CharAt(a, k) = CharAt(b, k)
          \/ /\ CollationRank(CharAt(a, k)) = CollationRank(CharAt(b, k))
             /\ CollationRank(CharAt(a, k)) \in 1..26

\* The author is the text 'Public Domain', ignoring case and surrounding spaces.
IsPublicDomainAuthor(author) ==
    /\ ~MissingOrBlank(author)
    /\ \E i \in 1..Len(author) : \E j \in i..Len(author) :
          /\ IsTrimmed(author, SubSeq(author, i, j))
          /\ SameIgnoringCase(SubSeq(author, i, j), "Public Domain")

\* The normalized license the claim describes for a license and an author.
NormalizedAsDescribed(license, author, result) ==
    IF MissingOrBlank(license)
    THEN result = (IF IsPublicDomainAuthor(author) THEN "Public Domain" ELSE "No License")
    ELSE IsTrimmed(license, result)

\* Licenses and authors a record may carry.
LicenseValues == {Undefined, NotAString, "", "  ", "MIT", " MIT ", "CC BY", "Public Domain"}
AuthorValues ==
    {Undefined, NotAString, "", " ", "Public Domain", " public domain ", "PUBLIC DOMAIN",
     "Public  Domain", "Public Domain Trust", "Jane Doe"}

\* C28: normalizeLicense gives 'Public Domain' for a missing or blank license
\* whose author is 'Public Domain' up to case and surrounding whitespace, the
\* trimmed license when the license is not blank (whatever the author), and
\* 'No License' for any other missing or blank license.  The function reads
\* no state: it is compared with the description for all the values above
\* where a behaviour starts, and for the records of the collection, together
\* with the labels of the license table, once the collection is loaded.
C28_NormalizeLicense ==
    /\ phase = "loading" =>
          \A license \in LicenseValues : \A author \in AuthorValues :
             NormalizedAsDescribed(license, author, normalizeLicense(license, author))
    /\ phase = "ready" =>
          \E recs \in {Collection(source)} :
             /\ \A k \in DOMAIN recs :
                   NormalizedAsDescribed(recs[k].license, recs[k].author,
                                         normalizeLicense(recs[k].license, recs[k].author))
             /\ \A k \in DOMAIN recs : \E e \in DOMAIN licenseStats :
                   NormalizedAsDescribed(recs[k].license, recs[k].author,
                                         licenseStats[e].license)

\* C28 witness: the license table of a collection with a record without
\* license by 'Public Domain', one with a blank license by ' public domain ',
\* one with license MIT by 'PUBLIC DOMAIN' and records without license by
\* other authors.
C28_Witness ==
    /\ phase = "ready"
    /\ \E e \in DOMAIN licenseStats :
          licenseStats[e].license = "Public Domain" /\ licenseStats[e].count = 2
    /\ \E e \in DOMAIN licenseStats : licenseStats[e].license = "MIT"
    /\ \E e \in DOMAIN licenseStats : licenseStats[e].license = "No License"
    /\ \E k \in DOMAIN Collection(source) :
          /\ Collection(source)[k].license = "MIT"
          /\ IsPublicDomainAuthor(Collection(source)[k].author)

\* C29  Scorer boundary values: an image of 3840x2160 has aspect-ratio score
\* 50 and a pixel-size score between 44 and 49; an image of 100x100 (ratio
\* 1.0, 10,000 pixels) has pixel-size score 0 and an aspect-ratio score in
\* the mid-40s.  Read on the cache entries, which hold the scorer's result
\* for the dimensions the probe measured.
C29_ScorerBoundaries ==
    /\ \A url \in DOMAIN imageQualityCache :
          imageQualityCache[url].pixelSize = 3840 * 2160 /\ ImageDims(url) = <<3840, 2160>> =>
             /\ imageQualityCache[url].aspectRatioScore = 50
             /\ imageQualityCache[url].pixelSizeScore \in 44..49
    /\ \A url \in DOMAIN imageQualityCache :
          imageQualityCache[url].pixelSize = 100 * 100 /\ ImageDims(url) = <<100, 100>> =>
             /\ imageQualityCache[url].pixelSizeScore = 0
             /\ imageQualityCache[url].aspectRatioScore \in 43..47

\* C30  In the year histogram an artifact with a defined year y is counted in
\* bucket i exactly when boundary[i] <= y < boundary[i+1] for the 14 fixed
\* boundaries, hence in at most one of the 13 buckets; artifacts without a
\* year are counted in no bucket, and the bucket counts sum to the number of
\* artifacts with -5,000,000 <= year < 2025.
InBucket(year, i) ==
    /\ year # NoYear
    /\ timeframeBoundaries[i] <= year
    /\ year < timeframeBoundaries[i + 1]

C30_YearHistogram ==
    phase = "ready" =>
       \E recs \in {Collection(source)} :
          /\ Len(timeframeBoundaries) = 14
          /\ DOMAIN timeframeCounts = 1..13
          /\ \A i \in 1..13 :
                timeframeCounts[i] =
                   Cardinality({k \in 1..Len(recs) : InBucket(recs[k].year, i)})
          /\ \A k \in 1..Len(recs) :
                /\ Cardinality({i \in 1..13 : InBucket(recs[k].year, i)}) <= 1
                /\ recs[k].year = NoYear => \A i \in 1..13 : ~InBucket(recs[k].year, i)
          /\ SumSeq(timeframeCounts) =
                Cardinality({k \in 1..Len(recs) :
                               /\ recs[k].year # NoYear
                               /\ 0 - 5000000 <= recs[k].year
                               /\ recs[k].year < 2025})

\* The chart is drawn for a collection with two artifacts on a boundary
\* (year 500), one on the lowest boundary, one below it, one on the highest
\* boundary and one without a year.
C30_Witness ==
    /\ phase = "ready"
    /\ DOMAIN timeframeCounts = 1..13
    /\ timeframeCounts[7] = 2
    /\ timeframeCounts[1] = 1
    /\ SumSeq(timeframeCounts) < Len(Collection(source))
    /\ \E k \in 1..Len(Collection(source)) : Collection(source)[k].year = NoYear
    /\ \E k \in 1..Len(Collection(source)) : Collection(source)[k].year = 2025
    /\ \E k \in 1..Len(Collection(source)) : Collection(source)[k].year < 0 - 5000000
                                                /\ Collection(source)[k].year # NoYear

\* C31  The bulk link test never aborts on a single URL: a failing or throwing
\* probe of one image or author URL adds one entry to the broken-link report
\* and testing proceeds with the remaining URLs; when the run ends the
\* completed counter equals 2 x (number of artifacts) and the test button is
\* enabled again.
IsPrefix(s, t) == Len(s) <= Len(t) /\ \A k \in 1..Len(s) : s[k] = t[k]

LinkTestRunning == linkPc \in {"image", "author", "delay"}

C31_LinkTestNeverAborts ==
    /\ [][(linkPc \in {"image", "author"} /\ linkPc' # linkPc) =>
            /\ linkPc' \in {"author", "delay"}
            /\ testButtonDisabled'
            /\ completed' > completed
            /\ IsPrefix(brokenLinks, brokenLinks')
            /\ Len(brokenLinks') <= Len(brokenLinks) + 1
            /\ Len(brokenLinks') = Len(brokenLinks) + 1 =>
                  /\ brokenLinks'[Len(brokenLinks')].error # "ok"
                  /\ brokenLinks'[Len(brokenLinks')].artifact =
                        Raw(artifacts[linkIndex]).title
                  /\ brokenLinks'[Len(brokenLinks')].type =
                        (IF linkPc = "image" THEN "Image" ELSE "Author Link")]_vars
    /\ [](LinkTestRunning => testButtonDisabled /\ completed <= totalTests)
    /\ [](linkPc = "done" =>
            /\ completed = 2 * Len(artifacts)
            /\ completed = totalTests
            /\ ~testButtonDisabled
            /\ testResults = (IF brokenLinks = <<>> THEN "all-working" ELSE "broken-list"))

\* A run has ended after an image probe answered 404, a fetch threw and an
\* author probe ran into the timeout.
C31_Witness ==
    /\ linkPc = "done"
    /\ ~testButtonDisabled
    /\ completed = 6
    /\ \E k \in 1..Len(brokenLinks) : brokenLinks[k].error = "HTTP 404"
    /\ \E k \in 1..Len(brokenLinks) : brokenLinks[k].error = "Failed to fetch"
    /\ \E k \in 1..Len(brokenLinks) :
          brokenLinks[k].error = "Request timeout" /\ brokenLinks[k].type = "Author Link"

\* C32  Whenever the top-5/bottom-5 lists are published for the active metric,
\* they contain only artifacts in the Scored state and they are the 5 highest
\* (resp. 5 lowest) by that metric among all Scored artifacts: an unscored or
\* failed artifact is never listed, and a Scored artifact is never left out of
\* the ranking because its value for the active metric is 0.
ScoredRefs(arts, heap) == {r \in Range(arts) : Scored(heap[r])}

\* items are distinct Scored artifacts, as many as there are (up to 5), and
\* no Scored artifact outside the list ranks before a listed one.
IsRanking(items, arts, heap, mode, highest) ==
    \E scored \in {ScoredRefs(arts, heap)} :
       /\ Range(items) \subseteq scored
       /\ Cardinality(Range(items)) = Len(items)
       /\ Len(items) = Min(5, Cardinality(scored))
       /\ \A r \in scored \ Range(items) : \A k \in 1..Len(items) :
             IF highest
             THEN getScoreByMode(heap, r, mode) <= getScoreByMode(heap, items[k], mode)
             ELSE getScoreByMode(heap, r, mode) >= getScoreByMode(heap, items[k], mode)

C32_ListsRankScored ==
    [][(highestList' # highestList \/ lowestList' # lowestList) =>
          /\ highestList'.mode = imageQualityMode'
          /\ lowestList'.mode = imageQualityMode'
          /\ IsRanking(highestList'.items, artifacts', objs', imageQualityMode', TRUE)
          /\ IsRanking(lowestList'.items, artifacts', objs', imageQualityMode', FALSE)]_vars

\* C33  While the current sort key is image-high-quality or image-low-quality
\* and an analysis pass is running, the paginated sequence reflects the
\* republished scores: after every analysis step sortedArtifacts is still
\* ordered consistently with the artifacts' current imageQualityScore values.
C33_SortFollowsScores ==
    imageAnalysisInProgress =>
       \E scores \in {ScoresOf(sortedArtifacts, objs)} :
          /\ currentSort = "image-high-quality" => HighQualityOrdered(scores)
          /\ currentSort = "image-low-quality" => LowQualityOrdered(scores)

\* C34  Analysis progress is monotonic and bounded: during a pass
\* imageAnalysisProgress.total equals the collection size fixed at pass start,
\* imageAnalysisProgress.current increases by exactly 1 after each completed
\* analysis, never decreases, and 0 <= current <= total in every reachable
\* state.
AnalysesCompleted ==
    IF pc \in {"probing", "settled"} THEN Len(visited) - 1 ELSE Len(visited)

C34_ProgressMonotone ==
    /\ [](/\ 0 <= imageAnalysisProgress.current
          /\ imageAnalysisProgress.current <= imageAnalysisProgress.total)
    /\ [](imageAnalysisInProgress =>
            /\ imageAnalysisProgress.total = Len(artifactsToAnalyze)
            /\ imageAnalysisProgress.total = Len(Collection(source))
            /\ imageAnalysisProgress.current = AnalysesCompleted)
    /\ [][imageAnalysisInProgress =>
            /\ imageAnalysisProgress'.total = imageAnalysisProgress.total
            /\ imageAnalysisProgress'.current \in
                  {imageAnalysisProgress.current, imageAnalysisProgress.current + 1}
            /\ (pc = "settled" /\ pc' # "settled") =>
                  imageAnalysisProgress'.current = imageAnalysisProgress.current + 1]_vars

\* A second call of startImageQualityAnalysis came while the pass was running
\* and the pass has completed two more analyses since.
C34_Witness ==
    /\ imageAnalysisInProgress
    /\ externalCalls = 1
    /\ passesStarted = 1
    /\ imageAnalysisProgress.current >= 2
    /\ imageAnalysisProgress.current < imageAnalysisProgress.total

\* C35  In every reachable state, under any interleaving of load-more clicks,
\* scroll-triggered loads, sort changes and analysis steps,
\* 0 <= displayedArtifacts <= sortedArtifacts.length and the rendered view is
\* exactly the prefix sortedArtifacts[0 .. displayedArtifacts) with no artifact
\* appended twice and none skipped.
C35_ViewIsPrefix ==
    /\ 0 <= displayedArtifacts
    /\ displayedArtifacts <= Len(sortedArtifacts)
    /\ Len(rendered) = displayedArtifacts
    /\ \A k \in 1..Len(rendered) : rendered[k].ref = sortedArtifacts[k]
    /\ \A k, l \in 1..Len(rendered) : k # l => rendered[k].ref # rendered[l].ref

\* Two pages of a quality view are shown after a sort change and a further
\* load, while the pass has completed analyses and is still running.
C35_Witness ==
    /\ source = "large"
    /\ currentSort = "image-high-quality"
    /\ userEvents = 2
    /\ displayedArtifacts = 24
    /\ Len(rendered) = 24
    /\ imageAnalysisInProgress
    /\ imageAnalysisProgress.current >= 1

\* C36  The cache holds an entry for a URL if and only if a dimension probe of
\* that URL has succeeded: a probe that fails or times out, and the analysis
\* of an artifact without image, leave the cache unchanged, and every cache
\* entry equals the score tuple computed from the successful probe of its URL.
\* A probe of a URL has succeeded exactly when a Scored artifact has that URL.
ScoredUrls == {Raw(r).image : r \in {q \in Refs : Scored(objs[q])}}

EntryMatches(entry, fields) ==
    /\ entry.overallScore = fields.imageQualityScore
    /\ entry.quality = fields.imageQuality
    /\ entry.aspectRatioScore = fields.aspectRatioScore
    /\ entry.pixelSizeScore = fields.pixelSizeScore
    /\ entry.aspectRatio = fields.aspectRatio
    /\ entry.pixelSize = fields.pixelSize

C36_CacheIffProbeSucceeded ==
    /\ [](phase = "ready" =>
            /\ DOMAIN imageQualityCache = ScoredUrls
            /\ \A u \in DOMAIN imageQualityCache :
                  /\ EntryMatches(imageQualityCache[u],
                                  calculateEnhancedQualityScores(ImageDims(u)[1], ImageDims(u)[2]))
                  /\ \A r \in Refs : (Scored(objs[r]) /\ Raw(r).image = u) =>
                        EntryMatches(imageQualityCache[u], objs[r]))
    /\ [][imageQualityCache' # imageQualityCache =>
            \E p \in inflight \ inflight' :
               /\ Scored(objs'[p.ref])
               /\ p.url \notin DOMAIN imageQualityCache
               /\ DOMAIN imageQualityCache' = DOMAIN imageQualityCache \cup {p.url}
               /\ \A u \in DOMAIN imageQualityCache :
                     imageQualityCache'[u] = imageQualityCache[u]]_vars
    /\ [][(\E r \in Refs : /\ objs'[r] # objs[r]
                           /\ objs'[r].imageQuality \in {"No Image", "Analysis Failed"})
            => imageQualityCache' = imageQualityCache]_vars

\* The cache holds the entry of a probe that succeeded while an artifact whose
\* probe failed and an artifact without image left none.
C36_Witness ==
    /\ phase = "ready"
    /\ DOMAIN imageQualityCache # {}
    /\ \E r \in Refs : /\ objs[r].imageQuality = "Analysis Failed"
                       /\ Raw(r).image \notin DOMAIN imageQualityCache
    /\ \E r \in Refs : objs[r].imageQuality = "No Image"

\* C37  Each dimension probe settles exactly once, as success, load error or
\* timeout: after a probe has timed out and its artifact has been marked
\* 'Analysis Failed', a late load or error event of the same image changes
\* neither the artifact's fields nor the cache, and does not advance the
\* analysis progress a second time.
LateEventStep == lateImages' # lateImages /\ lateImages' \subseteq lateImages

C37_ProbeSettlesOnce ==
    /\ [][LateEventStep =>
            /\ objs' = objs
            /\ imageQualityCache' = imageQualityCache
            /\ imageAnalysisProgress' = imageAnalysisProgress
            /\ pc' = pc
            /\ passIndex' = passIndex
            /\ inflight' = inflight]_vars
    /\ [](\A p \in lateImages :
            /\ p \notin inflight
            /\ objs[p.ref].imageQuality = "Analysis Failed")
    /\ [][\A p \in inflight \ inflight' :
            /\ p \notin lateImages
            /\ objs'[p.ref].imageQuality # NullLabel
            /\ imageAnalysisProgress' = imageAnalysisProgress]_vars
    /\ [](imageAnalysisInProgress => imageAnalysisProgress.current = AnalysesCompleted)

\* The pass has ended; the probe of the last artifact timed out and the event
\* of its image has come since.
C37_Witness ==
    /\ source = "odd"
    /\ pc = "done"
    /\ objs[5].imageQuality = "Analysis Failed"
    /\ lateImages = {}
    /\ imageAnalysisProgress.current = 5

\* C38  Every rendered card of an artifact that has reached the Scored state
\* eventually displays that artifact's own scores (not the 'Analyzing...'
\* placeholder and not the scores of another artifact), whether the card was
\* rendered before or after the artifact was scored, including when two
\* artifacts have the same title and when a Scored artifact's overall score is
\* 0.  The last update of the cards is the one that ends the pass, so the
\* cards must display the scores once the pass has ended.
ShowsOwnScores(card, heap) ==
    /\ ~card.meta.analyzing
    /\ card.meta = ScoreText(heap, card.ref)
    /\ ~card.badge.loading
    /\ card.badge.score \in {heap[card.ref].imageQualityScore,
                             heap[card.ref].aspectRatioScore,
                             heap[card.ref].pixelSizeScore}

C38_CardsShowOwnScores ==
    pc = "done" =>
       \A k \in 1..Len(rendered) :
          Scored(objs[rendered[k].ref]) => ShowsOwnScores(rendered[k], objs)

\* C39  The pixel-size score is non-decreasing in the pixel count: for any two
\* images with pixel counts p1 <= p2 (in particular around the 16,000-pixel
\* threshold), pixelSizeScore(p1) <= pixelSizeScore(p2), and both lie in
\* 0..50.  Checked on the pixel counts at, just below and just above every
\* threshold of the scorer, on the counts where the lowest branch rounds up,
\* and on the pixel counts of the images measured so far.
PixelSamples ==
    {PixelBands[j][1] + d : j \in 1..Len(PixelBands), d \in {0 - 1, 0, 1}}
    \cup {16777216 + d : d \in {0 - 1, 0, 1}}
    \cup {0, 1, 7999, 8000, 8001, 10000}

C39_PixelScoreMonotone ==
    \A p1, p2 \in PixelSamples
                  \cup {imageQualityCache[u].pixelSize : u \in DOMAIN imageQualityCache} :
       /\ PixelSizeScore(p1) \in 0..50
       /\ p1 <= p2 => PixelSizeScore(p1) <= PixelSizeScore(p2)

=============================================================================
